---- MODULE Spec2Model ----
(***************************************************************************)
(* Child management of musicxml's XMLElement                               *)
(* (src/musicxml/xmlelement/xmlelement.py): add_child, remove,             *)
(* replace_child and get_children of one element, acting on its            *)
(* ChildContainerTree and on its _unordered_children list.                 *)
(*                                                                         *)
(* The container tree itself (musicxml.xmlelement.xmlchildcontainer) is    *)
(* not part of src/: add_element and the tree's shape follow spec.md       *)
(* sections 3, 4.2 and 4.3.  The content models are the "XSD structure"    *)
(* listings of the element classes in xmlelement.py.                       *)
(***************************************************************************)
EXTENDS Integers, Sequences, FiniteSets, TLC

\* Children one element holds at once (guard of add_child in this model).
MaxChildren == 3

\* Objects of each child class: enough for MaxChildren children, a replaced
\* one and a new one.
Copies == MaxChildren + 2

\* Repetition objects: the repetitions that hold a child and an empty one.
MaxReps == MaxChildren + 1

None == <<0, 0>>

(***************************************************************************)
(* Content models.  A node is a sequence, a choice or an element           *)
(* declaration with minOccurs/maxOccurs; unb marks maxOccurs="unbounded".  *)
(* Nodes are numbered in document order, the root is node 1.               *)
(***************************************************************************)
Ind(kind, min, max, unb, kids) ==
    [kind |-> kind, name |-> "", min |-> min, max |-> max, unb |-> unb, kids |-> kids]

El(name, min, max, unb) ==
    [kind |-> "element", name |-> name, min |-> min, max |-> max, unb |-> unb, kids |-> <<>>]

\* XMLDirectionType: Choice{rehearsal 1..unbounded, ..., wedge 1..1, ...}
\* (two of its alternatives).
DirectionTypeNodes ==
    << Ind("choice", 1, 1, FALSE, <<2, 3>>),
       El("rehearsal", 1, 1, TRUE),
       El("wedge", 1, 1, FALSE) >>

\* XMLSwing: Sequence{Choice{straight, Sequence{first, second, swing-type?}},
\* swing-style?}.
SwingNodes ==
    << Ind("sequence", 1, 1, FALSE, <<2, 8>>),
       Ind("choice", 1, 1, FALSE, <<3, 4>>),
       El("straight", 1, 1, FALSE),
       Ind("sequence", 1, 1, FALSE, <<5, 6, 7>>),
       El("first", 1, 1, FALSE),
       El("second", 1, 1, FALSE),
       El("swing-type", 0, 1, FALSE),
       El("swing-style", 0, 1, FALSE) >>

\* XMLOrnaments: Sequence 0..unbounded {Choice{trill-mark, ..., wavy-line,
\* ...}, accidental-mark 0..unbounded} (two of the choice's alternatives).
OrnamentsNodes ==
    << Ind("sequence", 0, 1, TRUE, <<2, 5>>),
       Ind("choice", 1, 1, FALSE, <<3, 4>>),
       El("trill-mark", 1, 1, FALSE),
       El("wavy-line", 1, 1, FALSE),
       El("accidental-mark", 0, 1, TRUE) >>

\* spec.md section 8, duplication pruning: a Sequence with unbounded
\* maxOccurs and one required Leaf inside.
RepeatedNodes ==
    << Ind("sequence", 1, 1, TRUE, <<2>>),
       El("a", 1, 1, FALSE) >>

\* spec.md section 8, scenario: Sequence(1..1){a(1..1), Choice(0..1){b, c}}.
ScenarioNodes ==
    << Ind("sequence", 1, 1, FALSE, <<2, 3>>),
       El("a", 1, 1, FALSE),
       Ind("choice", 0, 1, FALSE, <<4, 5>>),
       El("b", 1, 1, FALSE),
       El("c", 1, 1, FALSE) >>

\* XMLNote: Choice{Sequence{full-note, duration, ...},
\* Sequence{cue, full-note, duration}, ...} (two of the choice's
\* alternatives, with pitch for the full-note group).
NoteNodes ==
    << Ind("choice", 1, 1, FALSE, <<2, 5>>),
       Ind("sequence", 1, 1, FALSE, <<3, 4>>),
       El("pitch", 1, 1, FALSE),
       El("duration", 1, 1, FALSE),
       Ind("sequence", 1, 1, FALSE, <<6, 7, 8>>),
       El("cue", 1, 1, FALSE),
       El("pitch", 1, 1, FALSE),
       El("duration", 1, 1, FALSE) >>

\* The group full-note of XMLNote: Sequence{chord?, Choice{pitch, ...,
\* rest}} (two of the choice's alternatives).
FullNoteNodes ==
    << Ind("sequence", 1, 1, FALSE, <<2, 3>>),
       El("chord", 0, 1, FALSE),
       Ind("choice", 1, 1, FALSE, <<4, 5>>),
       El("pitch", 1, 1, FALSE),
       El("rest", 1, 1, FALSE) >>

\* containers[TYPE.__name__]: the content model of each element type.
containers ==
    [t \in {"direction-type", "swing", "ornaments", "repeated", "scenario", "note",
            "full-note"} |->
        CASE t = "direction-type" -> DirectionTypeNodes
          [] t = "swing" -> SwingNodes
          [] t = "ornaments" -> OrnamentsNodes
          [] t = "repeated" -> RepeatedNodes
          [] t = "scenario" -> ScenarioNodes
          [] t = "note" -> NoteNodes
          [] t = "full-note" -> FullNoteNodes]

Types == DOMAIN containers

Range(s) == {s[i] : i \in 1..Len(s)}

Tag(c) == c[1]

\* The function f, with every value computed.
Table(f) == f @@ f

RepIds == 1..MaxReps

VARIABLES
    TYPE,                 \* the element's type
    child_container_tree, \* the element's copy of its type's content model
    reps,                 \* per repeatable sequence: its repetitions, in order
    xml_elements,         \* per Leaf instance: the attached children
    chosen_child,         \* per Choice instance: the chosen alternative or 0
    unordered_children,   \* XMLElement._unordered_children
    parent,               \* per child: child._parent is this element
    parent_xsd_element,   \* per child: the Leaf instance it remembers, or None
    template,             \* the tree of containers[TYPE.__name__] itself
    sibling,              \* a second element of the type: <<>>, or <<its fields>>
    chord,                \* a musictree Chord: <<>>, or <<its fields>>
    attribute,            \* an XSDAttribute: <<>>, or <<its fields>>
    _attributes,          \* XMLElement._attributes: the dictionary of attributes
    _value                \* per child: child._value

vars == <<TYPE, child_container_tree, reps, xml_elements, chosen_child,
          unordered_children, parent, parent_xsd_element, template, sibling,
          chord, attribute, _attributes, _value>>

\* The element and the objects around it, as one value: the operations below
\* map such a value to the value after the call.
Here ==
    [reps |-> reps, xml_elements |-> xml_elements, chosen_child |-> chosen_child,
     unordered_children |-> unordered_children, parent |-> parent,
     parent_xsd_element |-> parent_xsd_element]

\* copy.copy(containers[...]): the nodes with their links to the parent node
\* (node.up, 0 at the root).
Copy(nodes) ==
    [n \in 1..Len(nodes) |->
        [kind |-> nodes[n].kind, name |-> nodes[n].name, min |-> nodes[n].min,
         max |-> nodes[n].max, unb |-> nodes[n].unb, kids |-> nodes[n].kids,
         up |-> IF \E p \in 1..Len(nodes) : n \in Range(nodes[p].kids)
                THEN CHOOSE p \in 1..Len(nodes) : n \in Range(nodes[p].kids)
                ELSE 0]]

\* A Sequence whose own maxOccurs allows more than one instance: the tree
\* wraps it in a DuplicationXSDSequence.
Wrapped(node) == node.kind = "sequence" /\ (node.unb \/ node.max > 1)

\* The wrapped sequence node n lies in (itself included), or 0.
RECURSIVE WrapperOf(_, _)
WrapperOf(t, n) ==
    IF n = 0 THEN 0
    ELSE IF Wrapped(t[n]) THEN n
    ELSE WrapperOf(t, t[n].up)

\* The instances of the nodes of a tree: one per repetition object for a
\* node in a wrapped sequence, else the single instance 0.
Instances(t, kind) ==
    {i \in (1..Len(t)) \X (0..MaxReps) :
        /\ t[i[1]].kind = kind
        /\ (i[2] = 0) = (WrapperOf(t, i[1]) = 0)}

\* XMLElement.__init__ with _create_child_container_tree: a fresh copy of the
\* type's container, no children.  Child objects are <<tag, k>>.
Fresh(t) ==
    [reps |-> Table([s \in {n \in 1..Len(t) : Wrapped(t[n])} |-> <<1>>]),
     xml_elements |-> Table([i \in Instances(t, "element") |-> <<>>]),
     chosen_child |-> Table([i \in Instances(t, "choice") |-> 0]),
     unordered_children |-> <<>>,
     parent |->
         Table([c \in {t[n].name : n \in {m \in 1..Len(t) : t[m].kind = "element"}}
                      \X (1..Copies) |-> FALSE]),
     parent_xsd_element |->
         Table([c \in {t[n].name : n \in {m \in 1..Len(t) : t[m].kind = "element"}}
                      \X (1..Copies) |-> None])]

\* The node instances of a copied tree whose objects are those of the
\* original: copy.copy(containers[...]) gives every element nodes of its own
\* (two notes of one chord hold a pitch each).
Shared_WithTheOriginal(t) == Instances(t, "element") \cup Instances(t, "choice")

Shared(t) == {}

\* The tree of an object, as seen after another tree, with which it shares
\* nodes, has become new.
Through(t, new, theirs) ==
    IF Shared(t) = {} THEN theirs
    ELSE [theirs EXCEPT
            !.reps = new.reps,
            !.xml_elements =
                Table([i \in DOMAIN theirs.xml_elements |->
                          IF i \in Shared(t) THEN new.xml_elements[i]
                          ELSE theirs.xml_elements[i]]),
            !.chosen_child =
                Table([x \in DOMAIN theirs.chosen_child |->
                          IF x \in Shared(t) THEN new.chosen_child[x]
                          ELSE theirs.chosen_child[x]])]

\* An element made now: its tree is a copy of the template as the template
\* is now.
Instantiated(t, original) ==
    [Fresh(t) EXCEPT !.reps = original.reps,
                     !.xml_elements = original.xml_elements,
                     !.chosen_child = original.chosen_child]

\* The value of an element made without one.
NoValue == "None"

Init ==
    /\ TYPE \in Types
    /\ child_container_tree = Table(Copy(containers[TYPE]))
    /\ LET new == Fresh(child_container_tree)
       IN  /\ reps = new.reps
           /\ xml_elements = new.xml_elements
           /\ chosen_child = new.chosen_child
           /\ unordered_children = new.unordered_children
           /\ parent = new.parent
           /\ parent_xsd_element = new.parent_xsd_element
           /\ template = [reps |-> new.reps, xml_elements |-> new.xml_elements,
                          chosen_child |-> new.chosen_child]
           /\ _value = Table([c \in DOMAIN new.parent |-> NoValue])
    /\ _attributes = <<>>
    /\ sibling = <<>>
    /\ chord = <<>>
    /\ attribute = <<>>

(***************************************************************************)
(* The nodes of the element's tree.                                        *)
(***************************************************************************)
Root == 1

Kids(n) == child_container_tree[n].kids

IsLeaf(n) == child_container_tree[n].kind = "element"

IsChoice(n) == child_container_tree[n].kind = "choice"

\* node.up; 0 at the root.
Up(n) == child_container_tree[n].up

Repeatable(n) == Wrapped(child_container_tree[n])

\* The repeatable sequence n lies in (itself included), or 0.
Enclosing(n) == WrapperOf(child_container_tree, n)

Tags == {child_container_tree[n].name : n \in {m \in DOMAIN child_container_tree : IsLeaf(m)}}

(***************************************************************************)
(* Walking the container tree.                                             *)
(***************************************************************************)
\* The instance id of node n seen from an instance with id r below it.
InstOf(n, r) == IF Enclosing(n) # 0 THEN r ELSE 0

RECURSIVE IterNode(_, _, _), IterKids(_, _, _, _), IterReps(_, _, _), IterSlot(_, _, _)

\* iterate_leaves of one node instance, in document order.
IterNode(st, n, r) ==
    IF IsLeaf(n) THEN << <<n, r>> >> ELSE IterKids(st, n, r, 1)

IterKids(st, n, r, i) ==
    IF i > Len(Kids(n)) THEN <<>>
    ELSE IterSlot(st, Kids(n)[i], r) \o IterKids(st, n, r, i + 1)

\* The repetitions of a repeatable sequence, one after the other.
IterReps(st, s, j) ==
    IF j > Len(st.reps[s]) THEN <<>>
    ELSE IterNode(st, s, st.reps[s][j]) \o IterReps(st, s, j + 1)

IterSlot(st, n, r) ==
    IF Repeatable(n) THEN IterReps(st, n, 1) ELSE IterNode(st, n, r)

\* child_container_tree.iterate_leaves()
iterate_leaves(st) == IterSlot(st, Root, 0)

RECURSIVE Flatten(_, _)
Flatten(leaves, xml) ==
    IF leaves = <<>> THEN <<>>
    ELSE xml[Head(leaves)] \o Flatten(Tail(leaves), xml)

RECURSIVE Reversed(_)
Reversed(s) == IF s = <<>> THEN <<>> ELSE Append(Reversed(Tail(s)), Head(s))

\* A get_children that reads the leaves from the last to the first.
get_children_LeavesReversed(st, ordered) ==
    IF ordered = FALSE THEN st.unordered_children
    ELSE Flatten(Reversed(iterate_leaves(st)), st.xml_elements)

\* A get_children that answers with the unordered list whatever it is asked.
get_children_Unordered(st, ordered) == st.unordered_children

\* self._child_container_tree is None: the element has no nodes.
NoTree == DOMAIN child_container_tree = {}

\* XMLElement.get_children
get_children(st, ordered) ==
    IF ordered = FALSE THEN st.unordered_children
    ELSE IF NoTree THEN <<>>
    ELSE Flatten(iterate_leaves(st), st.xml_elements)

\* XMLElement.possible_children_names: the names of the leaves of the
\* container tree.
possible_children_names(st) ==
    IF NoTree THEN {}
    ELSE {child_container_tree[i[1]].name : i \in Range(iterate_leaves(st))}

\* XMLElement.find_children(name, ordered): the children of the class, in
\* the order of get_children(ordered).
find_children(st, name, ordered) ==
    SelectSeq(get_children(st, ordered), LAMBDA ch : Tag(ch) = name)

\* XMLElement.find_child(name, ordered): the first child of the class, or
\* None.
find_child(st, name, ordered) ==
    IF find_children(st, name, ordered) = <<>> THEN None
    ELSE Head(find_children(st, name, ordered))

\* item.split('_') of the names a caller reads: an item is the list of its
\* words.  The words of each child name, which is written with hyphens.
Words(name) ==
    CASE name = "swing-type" -> <<"swing", "type">>
      [] name = "swing-style" -> <<"swing", "style">>
      [] name = "trill-mark" -> <<"trill", "mark">>
      [] name = "wavy-line" -> <<"wavy", "line">>
      [] name = "accidental-mark" -> <<"accidental", "mark">>
      [] OTHER -> <<name>>

\* '-'.join(words): the child name with these words; a single word is its
\* own name, and "-" stands for the other names no child has.
Joined(words) ==
    IF \E name \in Tags : Words(name) = words
    THEN CHOOSE name \in Tags : Words(name) = words
    ELSE IF Len(words) = 1 THEN words[1] ELSE "-"

\* item.replace('xml_', ''): every word xml that another word follows is
\* dropped.
RECURSIVE Replace_xml_(_)
Replace_xml_(item) ==
    IF Len(item) < 2 THEN item
    ELSE IF Head(item) = "xml" THEN Replace_xml_(Tail(item))
    ELSE <<Head(item)>> \o Replace_xml_(Tail(item))

\* A __getattr__ that looks for the child in the container tree's names
\* only and never among the children.
getattr_NeverAChild(st, item, attributes, allowed) ==
    IF item \in attributes THEN [kind |-> "attribute", value |-> item]
    ELSE IF item \in allowed THEN [kind |-> "None", value |-> None]
    ELSE IF Head(item) = "xml"
            /\ Joined(Replace_xml_(item)) \in possible_children_names(st)
         THEN [kind |-> "None", value |-> None]
    ELSE [kind |-> "AttributeError", value |-> None]

\* XMLElement.__getattr__(item), called for a name that is no field of the
\* object.  attributes: the items whose attribute is set; allowed: the items
\* of the attributes the type declares.
getattr(st, item, attributes, allowed) ==
    IF item \in attributes THEN [kind |-> "attribute", value |-> item]
    ELSE IF item \in allowed THEN [kind |-> "None", value |-> None]
    ELSE IF Head(item) = "xml"
    THEN LET child_name == Joined(Replace_xml_(item))
             named == SelectSeq(get_children(st, FALSE),
                                LAMBDA child : Tag(child) = child_name)
         IN  IF named # <<>> THEN [kind |-> "child", value |-> Head(named)]
             ELSE IF child_name \in possible_children_names(st)
             THEN [kind |-> "None", value |-> None]
             ELSE [kind |-> "AttributeError", value |-> None]
    ELSE [kind |-> "AttributeError", value |-> None]

\* list.index and list.remove of Python: the first occurrence.
IndexOf(s, x) == CHOOSE i \in 1..Len(s) : s[i] = x /\ \A j \in 1..(i - 1) : s[j] # x

RemoveFirst(s, x) ==
    IF x \in Range(s)
    THEN SubSeq(s, 1, IndexOf(s, x) - 1) \o SubSeq(s, IndexOf(s, x) + 1, Len(s))
    ELSE s

\* reversed_path_to_root of a node of the content model: the node, its
\* parent, ..., the root.
RECURSIVE PathFrom(_)
PathFrom(n) == IF n = 0 THEN <<>> ELSE <<n>> \o PathFrom(Up(n))

PathToRoot(n) == PathFrom(n)

(***************************************************************************)
(* add_element of the container tree (spec.md section 4.3, add).           *)
(***************************************************************************)
\* (b) the Leaf holds maxOccurs children.
Saturated(st, i) ==
    ~child_container_tree[i[1]].unb /\ Len(st.xml_elements[i]) >= child_container_tree[i[1]].max

\* (c) every ancestor Choice has nothing chosen, or has chosen the branch
\* that contains the Leaf.
ChoiceOpen(st, i) ==
    \A m \in Range(PathToRoot(i[1])) :
        (Up(m) # 0 /\ IsChoice(Up(m)))
            => st.chosen_child[<<Up(m), InstOf(Up(m), i[2])>>] \in {0, m}

\* Children attached below member m of an instance with id r.
Attachments(st, m, r) == Flatten(IterSlot(st, m, r), st.xml_elements)

PositionIn(s, x) == CHOOSE k \in 1..Len(s) : s[k] = x

\* A rule (d) that closes nothing.
Closed_Never(st, i) == FALSE

\* (d) a member with minOccurs = 0 on the Leaf's path is closed once a later
\* member of the same Sequence, in the same repetition, holds a child.
Closed(st, i) ==
    \E m \in Range(PathToRoot(i[1])) :
        /\ Up(m) # 0
        /\ child_container_tree[Up(m)].kind = "sequence"
        /\ child_container_tree[m].min = 0
        /\ \E k \in (PositionIn(Kids(Up(m)), m) + 1)..Len(Kids(Up(m))) :
               Attachments(st, Kids(Up(m))[k], InstOf(Up(m), i[2])) # <<>>

\* A Leaf that can take a child with this tag now.
Reachable(st, i, tag) ==
    /\ child_container_tree[i[1]].name = tag
    /\ ~Saturated(st, i)
    /\ ChoiceOpen(st, i)
    /\ ~Closed(st, i)

Candidates(st, tag) ==
    SelectSeq(iterate_leaves(st), LAMBDA i : Reachable(st, i, tag))

\* Repeatable sequences that declare the tag and whose repetition bound is
\* not exhausted.
Duplicable(st, tag) ==
    {s \in DOMAIN st.reps :
        /\ \E n \in DOMAIN child_container_tree :
               IsLeaf(n) /\ Enclosing(n) = s /\ child_container_tree[n].name = tag
        /\ (child_container_tree[s].unb \/ Len(st.reps[s]) < child_container_tree[s].max)}

\* Repetition objects that are neither in the tree nor hold a child.
FreeReps(st) ==
    {r \in RepIds :
        /\ \A s \in DOMAIN st.reps : r \notin Range(st.reps[s])
        /\ \A i \in DOMAIN st.xml_elements : i[2] = r => st.xml_elements[i] = <<>>}

Min(S) == CHOOSE x \in S : \A y \in S : x <= y

\* The Leaves of a fresh repetition r of s that take the tag.
NewRepCandidates(st, s, r, tag) ==
    SelectSeq(IterNode(st, s, r),
              LAMBDA i : child_container_tree[i[1]].name = tag
                         /\ (child_container_tree[i[1]].unb \/ child_container_tree[i[1]].max > 0))

\* On success every Choice above the Leaf commits to the Leaf's branch
\* (section 3, invariant 2, and rule (c)).
Commit(ch, i) ==
    Table([x \in DOMAIN ch |->
              IF \E m \in Range(PathToRoot(i[1])) :
                     Up(m) = x[1] /\ x[2] = InstOf(x[1], i[2])
              THEN CHOOSE m \in Range(PathToRoot(i[1])) : Up(m) = x[1]
              ELSE ch[x]])

\* A fresh copy of repetition r: empty Leaves, nothing chosen.
FreshXml(st, r) ==
    Table([i \in DOMAIN st.xml_elements |->
              IF i[2] = r THEN <<>> ELSE st.xml_elements[i]])

FreshChosen(st, r) ==
    Table([x \in DOMAIN st.chosen_child |->
              IF x[2] = r THEN 0 ELSE st.chosen_child[x]])

Failure(st, what) == [result |-> what, leaf |-> None, st |-> st]

Attach(st, c, i, rp, xml, ch) ==
    [result |-> "ok", leaf |-> i,
     st |-> [st EXCEPT !.reps = rp,
                       !.xml_elements = [xml EXCEPT ![i] = Append(@, c)],
                       !.chosen_child = Commit(ch, i)]]

\* forward selects the candidate; omitted (<<>>) takes the first.
Pick(forward) == IF forward = <<>> THEN 1 ELSE forward[1] + 1

\* The outcome of add_element(child, forward): "ok" with the Leaf and the
\* tree after it, or "NoMatchingSlot" with the tree as it was.  Two outcomes
\* mark calls the model does not make: "hint" when forward is not the index
\* of a candidate, "bound" when no repetition object is left.
add_element(st, c, forward) ==
    LET cands == Candidates(st, Tag(c))
    IN  IF cands # <<>>
        THEN IF Pick(forward) <= Len(cands)
             THEN Attach(st, c, cands[Pick(forward)],
                         st.reps, st.xml_elements, st.chosen_child)
             ELSE Failure(st, "hint")
        ELSE IF Duplicable(st, Tag(c)) = {}
        THEN Failure(st, "NoMatchingSlot")
        ELSE IF FreeReps(st) = {}
        THEN Failure(st, "bound")
        ELSE LET s == Min(Duplicable(st, Tag(c)))
                 r == Min(FreeReps(st))
                 fresh == NewRepCandidates(st, s, r, Tag(c))
             IN  IF Pick(forward) <= Len(fresh)
                 THEN Attach(st, c, fresh[Pick(forward)],
                             [st.reps EXCEPT ![s] = Append(@, r)],
                             FreshXml(st, r), FreshChosen(st, r))
                 ELSE Failure(st, "hint")

(***************************************************************************)
(* get_required_element_names of the container tree (spec.md section 4.3,  *)
(* required_names).                                                        *)
(***************************************************************************)
\* Of the requirement lists of the alternatives of a Choice, the one to
\* answer with when backtracking: the first that is empty, or failing that
\* the first of the shortest.
RECURSIVE Fewest(_, _)
Fewest(alts, best) ==
    IF alts = <<>> THEN best
    ELSE Fewest(Tail(alts), IF Len(Head(alts)) < Len(best) THEN Head(alts) ELSE best)

RECURSIVE ReqNode(_, _, _, _), ReqKids(_, _, _, _, _), ReqAlts(_, _, _, _, _),
          ReqReps(_, _, _, _), ReqSlot(_, _, _, _), ReqChoice(_, _, _, _)

\* The names one node instance still requires, in document order.  A Leaf
\* below its minOccurs gives its name.  A Choice with minOccurs 0 and nothing
\* chosen requires nothing; a Choice that has chosen requires what the chosen
\* alternative requires; otherwise its Leaves below their minOccurs are
\* required.  With backtracking an unsatisfied Choice is answered by the
\* alternative that Fewest selects; nothing is assigned on the way.
ReqNode(st, n, r, backtrack) ==
    IF IsLeaf(n)
    THEN IF Len(st.xml_elements[<<n, r>>]) < child_container_tree[n].min
         THEN <<child_container_tree[n].name>> ELSE <<>>
    ELSE IF IsChoice(n)
    THEN LET own == ReqChoice(st, n, r, backtrack)
         IN  IF own = <<>> \/ ~backtrack THEN own
             ELSE LET alts == ReqAlts(st, n, r, 1, backtrack)
                  IN  Fewest(Tail(alts), Head(alts))
    ELSE ReqKids(st, n, r, 1, backtrack)

\* What a Choice requires as it stands.
ReqChoice(st, n, r, backtrack) ==
    LET chosen == st.chosen_child[<<n, r>>]
    IN  IF chosen # 0 THEN ReqSlot(st, chosen, r, backtrack)
        ELSE IF child_container_tree[n].min = 0 THEN <<>>
        ELSE ReqKids(st, n, r, 1, backtrack)

\* The members of a Sequence, one after the other.
ReqKids(st, n, r, i, backtrack) ==
    IF i > Len(Kids(n)) THEN <<>>
    ELSE ReqSlot(st, Kids(n)[i], r, backtrack) \o ReqKids(st, n, r, i + 1, backtrack)

\* What each alternative of a Choice would require, in declared order.
ReqAlts(st, n, r, i, backtrack) ==
    IF i > Len(Kids(n)) THEN <<>>
    ELSE <<ReqSlot(st, Kids(n)[i], r, backtrack)>> \o ReqAlts(st, n, r, i + 1, backtrack)

\* All materialized repetitions of a repeatable sequence.
ReqReps(st, s, j, backtrack) ==
    IF j > Len(st.reps[s]) THEN <<>>
    ELSE ReqNode(st, s, st.reps[s][j], backtrack) \o ReqReps(st, s, j + 1, backtrack)

ReqSlot(st, n, r, backtrack) ==
    IF Repeatable(n) THEN ReqReps(st, n, 1, backtrack) ELSE ReqNode(st, n, r, backtrack)

\* child_container_tree.get_required_element_names(intelligent_choice)
get_required_element_names(st, intelligent_choice) ==
    ReqSlot(st, Root, 0, intelligent_choice)

(***************************************************************************)
(* XMLElement.add_child                                                    *)
(***************************************************************************)
\* An add_child that appends the child to _unordered_children before the
\* container tree has accepted it.
add_child_AppendingFirst(st, c, forward) ==
    LET r == add_element(st, c, forward)
    IN  IF r.result = "ok"
        THEN [result |-> "ok",
              st |-> [r.st EXCEPT
                        !.parent_xsd_element[c] = r.leaf,
                        !.unordered_children = Append(@, c),
                        !.parent[c] = TRUE]]
        ELSE [result |-> r.result,
              st |-> [r.st EXCEPT !.unordered_children = Append(@, c)]]

\* An add_child that does not pass forward on to the container tree.
add_child_IgnoringForward(st, c, forward) ==
    LET r == add_element(st, c, <<>>)
    IN  IF r.result = "ok"
        THEN [result |-> "ok",
              st |-> [r.st EXCEPT
                        !.parent_xsd_element[c] = r.leaf,
                        !.unordered_children = Append(@, c),
                        !.parent[c] = TRUE]]
        ELSE [result |-> r.result, st |-> r.st]

\* An add_child that puts the child at the head of _unordered_children.
add_child_Prepending(st, c, forward) ==
    LET r == add_element(st, c, forward)
    IN  IF r.result = "ok"
        THEN [result |-> "ok",
              st |-> [r.st EXCEPT
                        !.parent_xsd_element[c] = r.leaf,
                        !.unordered_children = <<c>> \o @,
                        !.parent[c] = TRUE]]
        ELSE [result |-> r.result, st |-> r.st]

\* An add_child that asks the container tree but leaves the child out of it.
add_child_NotAttaching(st, c, forward) ==
    LET r == add_element(st, c, forward)
    IN  IF r.result = "ok"
        THEN [result |-> "ok",
              st |-> [st EXCEPT
                        !.unordered_children = Append(@, c),
                        !.parent[c] = TRUE]]
        ELSE [result |-> r.result, st |-> r.st]

\* An add_child that swallows the refusal of the container tree and reports
\* success.
add_child_Swallowing(st, c, forward) ==
    LET r == add_element(st, c, forward)
    IN  IF r.result = "ok"
        THEN [result |-> "ok",
              st |-> [r.st EXCEPT
                        !.parent_xsd_element[c] = r.leaf,
                        !.unordered_children = Append(@, c),
                        !.parent[c] = TRUE]]
        ELSE [result |-> IF r.result = "NoMatchingSlot" THEN "ok" ELSE r.result,
              st |-> r.st]

\* An add_child that looks for the container tree after it has appended the
\* child and set its parent.
add_child_AppendingAnyway(st, c, forward) ==
    IF NoTree
    THEN [result |-> "XMLElementCannotHaveChildrenError",
          st |-> [st EXCEPT !.unordered_children = Append(@, c),
                            !.parent[c] = TRUE]]
    ELSE LET r == add_element(st, c, forward)
         IN  IF r.result = "ok"
             THEN [result |-> "ok",
                   st |-> [r.st EXCEPT
                             !.parent_xsd_element[c] = r.leaf,
                             !.unordered_children = Append(@, c),
                             !.parent[c] = TRUE]]
             ELSE [result |-> r.result, st |-> r.st]

\* The outcome of add_child(child, forward): the result and the state after
\* the call.  Without a container tree the call raises at once; add_element
\* raises before anything else is assigned.
add_child(st, c, forward) ==
    IF NoTree THEN [result |-> "XMLElementCannotHaveChildrenError", st |-> st]
    ELSE
    LET r == add_element(st, c, forward)
    IN  IF r.result = "ok"
        THEN [result |-> "ok",
              st |-> [r.st EXCEPT
                        !.parent_xsd_element[c] = r.leaf,
                        !.unordered_children = Append(@, c),
                        !.parent[c] = TRUE]]
        ELSE [result |-> r.result, st |-> r.st]

(***************************************************************************)
(* XMLElement.remove                                                       *)
(***************************************************************************)
\* A loop that never asks for the repetition to be taken out.
remove_duplicate_Never(leaves, xml, flag) == FALSE

\* The loop of remove_duplictation over the leaves of one repetition:
\* remove_duplicate is set at every leaf passed until a leaf that holds
\* children breaks the loop.
RECURSIVE remove_duplicate(_, _, _)
remove_duplicate(leaves, xml, flag) ==
    IF leaves = <<>> THEN flag
    ELSE IF xml[Head(leaves)] # <<>> THEN flag
    ELSE remove_duplicate(Tail(leaves), xml, TRUE)

\* A remove_duplictation that does not look at the number of repetitions.
RECURSIVE remove_duplictation_AlsoTheLast(_, _, _)
remove_duplictation_AlsoTheLast(st, m, r) ==
    IF m = 0 THEN st
    ELSE remove_duplictation_AlsoTheLast(
             IF /\ Repeatable(m)
                /\ r \in Range(st.reps[m])
                /\ remove_duplicate(IterNode(st, m, r), st.xml_elements, FALSE)
             THEN [st EXCEPT !.reps[m] = RemoveFirst(@, r)]
             ELSE st,
             Up(m), InstOf(Up(m), r))

\* remove_duplictation: from parent_container up to the root, a node below a
\* duplication wrapper with more than one child is taken out of the wrapper
\* when remove_duplicate comes out True.  m is the node, r its instance id.
RECURSIVE remove_duplictation(_, _, _)
remove_duplictation(st, m, r) ==
    IF m = 0 THEN st
    ELSE remove_duplictation(
             IF /\ Repeatable(m)
                /\ r \in Range(st.reps[m])
                /\ Len(st.reps[m]) > 1
                /\ remove_duplicate(IterNode(st, m, r), st.xml_elements, FALSE)
             THEN [st EXCEPT !.reps[m] = RemoveFirst(@, r)]
             ELSE st,
             Up(m), InstOf(Up(m), r))

\* child.parent_xsd_element.parent_container.get_parent()
parent_container(leaf) == <<Up(leaf[1]), InstOf(Up(leaf[1]), leaf[2])>>

\* A remove that makes the Choice above the Leaf choose the root of the tree.
remove_ChoosingTheRoot(st, child) ==
    IF child \notin Range(st.unordered_children)
    THEN [result |-> "ValueError", st |-> st]
    ELSE LET leaf == st.parent_xsd_element[child]
             pc == parent_container(leaf)
             st1 == [st EXCEPT
                       !.unordered_children = RemoveFirst(@, child),
                       !.chosen_child =
                           IF pc \in DOMAIN @ /\ @[pc] = leaf[1]
                           THEN [@ EXCEPT ![pc] = Root] ELSE @,
                       !.xml_elements[leaf] = RemoveFirst(@, child),
                       !.parent_xsd_element[child] = None,
                       !.parent[child] = FALSE]
         IN  [result |-> "ok", st |-> remove_duplictation(st1, pc[1], pc[2])]

\* A remove that resets the fields of the child before it looks for it in
\* _unordered_children.
remove_ResettingFirst(st, child) ==
    IF child \notin Range(st.unordered_children)
    THEN [result |-> "ValueError",
          st |-> [st EXCEPT !.parent_xsd_element[child] = None,
                            !.parent[child] = FALSE]]
    ELSE LET leaf == st.parent_xsd_element[child]
             pc == parent_container(leaf)
             st1 == [st EXCEPT
                       !.unordered_children = RemoveFirst(@, child),
                       !.chosen_child =
                           IF pc \in DOMAIN @ /\ @[pc] = leaf[1]
                           THEN [@ EXCEPT ![pc] = 0] ELSE @,
                       !.xml_elements[leaf] = RemoveFirst(@, child),
                       !.parent_xsd_element[child] = None,
                       !.parent[child] = FALSE]
         IN  [result |-> "ok", st |-> remove_duplictation(st1, pc[1], pc[2])]

\* The outcome of remove(child): "ok", or "ValueError" from
\* _unordered_children.remove(child), the first statement, when the child is
\* not in the list.
remove(st, child) ==
    IF child \notin Range(st.unordered_children)
    THEN [result |-> "ValueError", st |-> st]
    ELSE LET leaf == st.parent_xsd_element[child]
             pc == parent_container(leaf)
             st1 == [st EXCEPT
                       !.unordered_children = RemoveFirst(@, child),
                       !.chosen_child =
                           IF pc \in DOMAIN @ /\ @[pc] = leaf[1]
                           THEN [@ EXCEPT ![pc] = 0] ELSE @,
                       !.xml_elements[leaf] = RemoveFirst(@, child),
                       !.parent_xsd_element[child] = None,
                       !.parent[child] = FALSE]
         IN  [result |-> "ok", st |-> remove_duplictation(st1, pc[1], pc[2])]

(***************************************************************************)
(* XMLElement.replace_child                                                *)
(***************************************************************************)
\* A value that is not an XMLElement.
Stranger == <<"object", 0>>

\* A check that lets every value pass.
check_child_to_be_added_Never(st, child) == TRUE

\* _check_child_to_be_added: isinstance(child, XMLElement); the XMLElements
\* are the objects with a _parent field.  FALSE stands for the TypeError.
check_child_to_be_added(st, child) == child \in DOMAIN st.parent

\* s[index] of a Python list: a negative index counts from the end.
InRange(s, index) == -Len(s) <= index /\ index < Len(s)

At(s, index) == IF index >= 0 THEN s[index + 1] ELSE s[Len(s) + index + 1]

\* A substitution that keeps the old child and appends the new one.
Substituted_KeepingOld(els, old_child, new) == Append(els, new)

\* [new if el == old_child else el for el in xml_elements]
RECURSIVE Substituted(_, _, _)
Substituted(els, old_child, new) ==
    IF els = <<>> THEN <<>>
    ELSE <<IF Head(els) = old_child THEN new ELSE Head(els)>>
         \o Substituted(Tail(els), old_child, new)

\* A replace_child that takes the old child out of _unordered_children and
\* puts the new one at the end.
replace_child_AtTheEnd(st, olds, callable, new, index) ==
    LET list_of_olds == SelectSeq(get_children(st, TRUE), LAMBDA ch : ch \in olds)
    IN  IF list_of_olds = <<>>
        THEN [result |-> "ValueError", st |-> st]
        ELSE IF ~check_child_to_be_added(st, new)
        THEN [result |-> "TypeError", st |-> st]
        ELSE IF ~InRange(list_of_olds, index)
        THEN [result |-> "IndexError", st |-> st]
        ELSE LET old_child == At(list_of_olds, index)
                 leaf == st.parent_xsd_element[old_child]
             IN  [result |-> "ok",
                  st |-> [st EXCEPT
                            !.unordered_children = Append(RemoveFirst(@, old_child), new),
                            !.parent_xsd_element[new] = leaf,
                            !.xml_elements[leaf] = Substituted(@, old_child, new),
                            !.parent[new] = TRUE]]

\* A replace_child that takes the first of the olds whatever the index.
replace_child_FirstMatch(st, olds, callable, new, index) ==
    LET list_of_olds == SelectSeq(get_children(st, TRUE), LAMBDA ch : ch \in olds)
    IN  IF list_of_olds = <<>>
        THEN [result |-> "ValueError", st |-> st]
        ELSE IF ~check_child_to_be_added(st, new)
        THEN [result |-> "TypeError", st |-> st]
        ELSE IF ~InRange(list_of_olds, index)
        THEN [result |-> "IndexError", st |-> st]
        ELSE LET old_child == At(list_of_olds, 0)
                 old_index == IndexOf(st.unordered_children, old_child)
                 leaf == st.parent_xsd_element[old_child]
                 st1 == [st EXCEPT
                           !.unordered_children[old_index] = new,
                           !.parent_xsd_element[new] = leaf,
                           !.xml_elements[leaf] = Substituted(@, old_child, new),
                           !.parent[new] = TRUE]
             IN  [result |-> "ok",
                  st |-> IF callable THEN st1
                         ELSE [st1 EXCEPT !.parent[old_child] = FALSE]]

\* olds: the children old(ch) is true of, or {old} when old is a child;
\* callable: old is a function.  The result is "ok" or the exception raised:
\* ValueError (no child matches), TypeError (new is no XMLElement),
\* IndexError (list_of_olds[index]), each before anything is assigned.
replace_child(st, olds, callable, new, index) ==
    LET list_of_olds == SelectSeq(get_children(st, TRUE), LAMBDA ch : ch \in olds)
    IN  IF list_of_olds = <<>>
        THEN [result |-> "ValueError", st |-> st]
        ELSE IF ~check_child_to_be_added(st, new)
        THEN [result |-> "TypeError", st |-> st]
        ELSE IF ~InRange(list_of_olds, index)
        THEN [result |-> "IndexError", st |-> st]
        ELSE LET old_child == At(list_of_olds, index)
                 old_index == IndexOf(st.unordered_children, old_child)
                 leaf == st.parent_xsd_element[old_child]
                 st1 == [st EXCEPT
                           !.unordered_children[old_index] = new,
                           !.parent_xsd_element[new] = leaf,
                           !.xml_elements[leaf] = Substituted(@, old_child, new),
                           !.parent[new] = TRUE]
             IN  [result |-> "ok",
                  st |-> IF callable THEN st1
                         ELSE [st1 EXCEPT !.parent[old_child] = FALSE]]

(***************************************************************************)
(* XMLElement._final_checks and to_string                                  *)
(***************************************************************************)
\* Node n lies at or below node m.
Below(m, n) == m \in Range(PathToRoot(n))

\* The Leaves under alternative A of the Choice instance x, emptied.
Detached(st, x, A) ==
    Table([i \in DOMAIN st.xml_elements |->
              IF Below(A, i[1]) /\ i[2] = InstOf(i[1], x[2])
              THEN <<>> ELSE st.xml_elements[i]])

\* The children attached again, one after the other.
RECURSIVE Reattach(_, _)
Reattach(st, children) ==
    IF children = <<>> THEN [result |-> "ok", st |-> st]
    ELSE LET r == add_element(st, Head(children), <<>>)
         IN  IF r.result # "ok" THEN [result |-> r.result, st |-> st]
             ELSE Reattach([r.st EXCEPT !.parent_xsd_element[Head(children)] = r.leaf],
                           Tail(children))

\* The children under the chosen alternative of x attached under
\* alternative B instead.
Rechosen(st, x, B) ==
    Reattach([st EXCEPT !.xml_elements = Detached(st, x, st.chosen_child[x]),
                        !.chosen_child[x] = B],
             Attachments(st, st.chosen_child[x], x[2]))

\* to_string, intelligent_choice: "to be able to change the attachment order
\* of XMLElement children in self.child_container_tree if an Exception was
\* thrown and other choices can still be checked".  The trees in which the
\* children of one Choice are attached under another of its alternatives and
\* nothing is required any more.
intelligent_choice(st) ==
    {t.st : t \in
        {e \in {Rechosen(st, x, B) :
                   x \in {y \in DOMAIN st.chosen_child :
                              /\ Enclosing(y[1]) = 0 \/ y[2] \in Range(st.reps[Enclosing(y[1])])
                              /\ st.chosen_child[y] # 0
                              /\ Attachments(st, st.chosen_child[y], y[2]) # <<>>},
                   B \in DOMAIN child_container_tree} :
            /\ e.result = "ok"
            /\ e.st.reps = st.reps
            /\ e.st.chosen_child # st.chosen_child
            /\ get_required_element_names(e.st, TRUE) = <<>>}}

\* What _final_checks of a child comes to.
Verdicts == {"ok", "ValueError", "XSDAttributeRequiredException", "XMLElementChildrenRequired"}

\* _final_checks that checks the element and none of its children.
Verdict_WithoutTheChildren(t, ic, attrs, checks) ==
    IF get_required_element_names(t, ic) # <<>> THEN "XMLElementChildrenRequired"
    ELSE IF ~attrs THEN "XSDAttributeRequiredException"
    ELSE "ok"

\* for child in self.get_children(): child._final_checks(...)
RECURSIVE FirstFailure(_, _)
FirstFailure(children, checks) ==
    IF children = <<>> THEN "ok"
    ELSE IF checks[Head(children)] # "ok" THEN checks[Head(children)]
    ELSE FirstFailure(Tail(children), checks)

\* _final_checks of the element on the tree t the container was left with:
\* the required children, then the required attributes (attrs: all are
\* set), then the children in document order (checks: what each comes to).
Verdict(t, ic, attrs, checks) ==
    IF get_required_element_names(t, ic) # <<>> THEN "XMLElementChildrenRequired"
    ELSE IF ~attrs THEN "XSDAttributeRequiredException"
    ELSE FirstFailure(get_children(t, TRUE), checks)

\* The outcomes of _final_checks(intelligent_choice): "ok" or the exception
\* raised, and the state after the call.
final_checks(st, ic, attrs, checks) ==
    LET trees == IF ~ic \/ get_required_element_names(st, FALSE) = <<>> THEN {st}
                 ELSE IF intelligent_choice(st) = {} THEN {st}
                 ELSE intelligent_choice(st)
    IN  {[result |-> Verdict(t, ic, attrs, checks), st |-> t] : t \in trees}

\* The outcomes of to_string(intelligent_choice): text is written when
\* _final_checks raises nothing.
to_string(st, ic, attrs, checks) ==
    {[result |-> o.result, text |-> o.result = "ok", st |-> o.st] :
         o \in final_checks(st, ic, attrs, checks)}

(***************************************************************************)
(* The calls a user of the element makes.                                  *)
(***************************************************************************)
\* How many children with this tag the element holds.
Count(st, tag) ==
    Cardinality({k \in 1..Len(st.unordered_children) :
                    Tag(st.unordered_children[k]) = tag})

\* An object of the class that is not among the children: the j-th such.
Another(st, tag, j) == <<tag, Count(st, tag) + j>>

\* forward: omitted (<<>>) or the index of one of the candidates.
Forwards(st, tag) ==
    {<<>>} \cup {<<f>> : f \in 0..(Len(Candidates(st, tag)) - 1)}

\* Objects no longer among the children are given up by the caller; the
\* objects in use are numbered, class by class, in the order of
\* _unordered_children, and the repetitions in the order of the tree.  No
\* call reads a field of an object that is not among the children before
\* assigning it, so this renames objects and changes nothing else.
Rank(st, c) ==
    Cardinality({k \in 1..IndexOf(st.unordered_children, c) :
                    Tag(st.unordered_children[k]) = Tag(c)})

\* Repetitions outside the tree that still hold a child.
Held(st, s) ==
    {q \in RepIds :
        /\ q \notin Range(st.reps[s])
        /\ \E i \in DOMAIN st.xml_elements :
               Enclosing(i[1]) = s /\ i[2] = q /\ st.xml_elements[i] # <<>>}

RECURSIVE Sorted(_)
Sorted(S) == IF S = {} THEN <<>> ELSE <<Min(S)>> \o Sorted(S \ {Min(S)})

\* Every child is held once, by the Leaf it remembers, and the Leaves hold
\* children only.
Regular(st) ==
    /\ \A j, k \in 1..Len(st.unordered_children) :
           st.unordered_children[j] = st.unordered_children[k] => j = k
    /\ \A c \in Range(st.unordered_children) :
           /\ c \in DOMAIN st.parent_xsd_element
           /\ st.parent_xsd_element[c] \in DOMAIN st.xml_elements
           /\ c \in Range(st.xml_elements[st.parent_xsd_element[c]])
    /\ \A i \in DOMAIN st.xml_elements :
           Range(st.xml_elements[i]) \subseteq Range(st.unordered_children)

RECURSIVE Renamed(_, _)
Renamed(els, name) ==
    IF els = <<>> THEN <<>>
    ELSE <<name[Head(els)]>> \o Renamed(Tail(els), name)

RECURSIVE Upto(_)
Upto(n) == IF n = 0 THEN <<>> ELSE Append(Upto(n - 1), n)

Canonical(st) ==
    IF ~Regular(st) THEN st
    ELSE LET children == Range(st.unordered_children)
             name == Table([c \in children |-> <<Tag(c), Rank(st, c)>>])
             order == Table([s \in DOMAIN st.reps |->
                                st.reps[s] \o Sorted(Held(st, s))])
             origin == Table([i \in DOMAIN st.xml_elements \cup DOMAIN st.chosen_child |->
                                 IF Enclosing(i[1]) = 0 THEN i
                                 ELSE IF i[2] <= Len(order[Enclosing(i[1])])
                                 THEN <<i[1], order[Enclosing(i[1])][i[2]]>>
                                 ELSE None])
         IN  [reps |-> Table([s \in DOMAIN st.reps |-> Upto(Len(st.reps[s]))]),
              xml_elements |->
                  Table([i \in DOMAIN st.xml_elements |->
                            IF origin[i] = None THEN <<>>
                            ELSE Renamed(st.xml_elements[origin[i]], name)]),
              chosen_child |->
                  Table([x \in DOMAIN st.chosen_child |->
                            IF origin[x] = None THEN 0
                            ELSE st.chosen_child[origin[x]]]),
              unordered_children |-> Renamed(st.unordered_children, name),
              parent |->
                  Table([c \in DOMAIN st.parent |->
                            \E d \in children : name[d] = c /\ st.parent[d]]),
              parent_xsd_element |->
                  Table([c \in DOMAIN st.parent_xsd_element |->
                            IF \E d \in children : name[d] = c
                            THEN LET i == st.parent_xsd_element[
                                              CHOOSE d \in children : name[d] = c]
                                 IN  IF Enclosing(i[1]) = 0 THEN i
                                     ELSE <<i[1], PositionIn(order[Enclosing(i[1])], i[2])>>
                            ELSE None])]

\* The values of the children under the names Canonical gives them.
CanonicalValues(st, values) ==
    IF ~Regular(st) THEN values
    ELSE LET children == Range(st.unordered_children)
         IN  Table([c \in DOMAIN values |->
                       IF \E d \in children : <<Tag(d), Rank(st, d)>> = c
                       THEN values[CHOOSE d \in children : <<Tag(d), Rank(st, d)>> = c]
                       ELSE NoValue])

\* The element's fields become st, its attributes attrs, and the values of
\* its children values.
BecomesWith(st, attrs, values) ==
    LET new == Canonical(st)
    IN  /\ reps' = new.reps
        /\ xml_elements' = new.xml_elements
        /\ chosen_child' = new.chosen_child
        /\ unordered_children' = new.unordered_children
        /\ parent' = new.parent
        /\ parent_xsd_element' = new.parent_xsd_element
        /\ template' = Through(child_container_tree, new, template)
        /\ sibling' = IF sibling = <<>> THEN <<>>
                      ELSE <<Through(child_container_tree, new, sibling[1])>>
        /\ _value' = CanonicalValues(st, values)
        /\ _attributes' = attrs
    /\ UNCHANGED <<TYPE, child_container_tree, chord, attribute>>

Becomes(st) == BecomesWith(st, _attributes, _value)

\* add_child(child, forward) with a new object of one of the classes.
AddChild ==
    \E tag \in {Tag(c) : c \in DOMAIN parent} :
        /\ Len(unordered_children) < MaxChildren
        /\ \E forward \in IF NoTree THEN {<<>>} ELSE Forwards(Here, tag) :
               LET done == add_child(Here, Another(Here, tag, 1), forward)
               IN  done.result \notin {"bound", "hint"} /\ Becomes(done.st)

\* Whom the caller names to remove or replace: a child, or an object that
\* is none.
Named(st) ==
    Range(st.unordered_children) \cup {Another(st, tag, 2) : tag \in Tags}

\* remove(child)
Remove ==
    \E child \in Named(Here) : Becomes(remove(Here, child).st)

\* replace_child(old, new) with old a child, or an object that is none, and
\* new a new object of the class of old, or a value that is no XMLElement.
ReplaceChild ==
    \E old \in Named(Here) : \E new \in {Another(Here, Tag(old), 1), Stranger} :
        Becomes(replace_child(Here, {old}, FALSE, new, 0).st)

\* replace_child(lambda ch: ch.name == name, new, index) with new a new
\* object of that name, and index in the range of the matches or just
\* outside of it.
ReplaceByFunction ==
    \E name \in Tags : \E index \in (-Count(Here, name) - 1)..Count(Here, name) :
        Becomes(replace_child(Here, {c \in DOMAIN parent : Tag(c) = name},
                              TRUE, Another(Here, name, 1), index).st)

\* to_string(intelligent_choice) of an element whose required attributes are
\* set or not, with children whose own checks pass or raise.
Serialize ==
    \E ic \in BOOLEAN, attrs \in BOOLEAN :
        \E verdict \in Verdicts :
            \E o \in to_string(Here, ic, attrs,
                                [c \in Range(unordered_children) |-> verdict]) :
                Becomes(o.st)

Next == AddChild \/ Remove \/ ReplaceChild \/ ReplaceByFunction \/ Serialize

Spec == Init /\ [][Next]_vars

(***************************************************************************)
(* Two elements of one type.                                               *)
(***************************************************************************)
\* The second element's fields become st.
SiblingBecomes(st) ==
    LET mine == Through(child_container_tree, st, Here)
    IN  /\ sibling' = <<st>>
        /\ template' = Through(child_container_tree, st, template)
        /\ reps' = mine.reps
        /\ xml_elements' = mine.xml_elements
        /\ chosen_child' = mine.chosen_child
        /\ UNCHANGED <<_attributes, _value, TYPE, child_container_tree, unordered_children, parent,
                       parent_xsd_element, chord, attribute>>

\* XMLElement.__init__ of a second element of the type.
Instantiate ==
    /\ sibling = <<>>
    /\ sibling' = <<Instantiated(child_container_tree, template)>>
    /\ UNCHANGED <<_attributes, _value, TYPE, child_container_tree, reps, xml_elements, chosen_child,
                   unordered_children, parent, parent_xsd_element, template, chord,
                   attribute>>

\* add_child(child) on the second element, for its first child.
SiblingAddChild ==
    /\ sibling # <<>>
    /\ sibling[1].unordered_children = <<>>
    /\ \E tag \in Tags :
           LET done == add_child(sibling[1], <<tag, 1>>, <<>>)
           IN  done.result = "ok" /\ SiblingBecomes(done.st)

\* remove(child) on the second element.
SiblingRemove ==
    /\ sibling # <<>>
    /\ \E child \in Range(sibling[1].unordered_children) :
           SiblingBecomes(remove(sibling[1], child).st)

NextTwo == Next \/ Instantiate \/ SiblingAddChild \/ SiblingRemove

TwoElements == Init /\ [][NextTwo]_vars

(***************************************************************************)
(* XMLElement.__setattr__: element.xml_<name> = value and                  *)
(* element.<attribute> = value.                                            *)
(***************************************************************************)
\* Element types without a container tree: step has a simple type, offset a
\* complex type for which containers has no entry.
NoContainer == {"step", "offset"}

\* TYPE.XSD_TREE.is_simple_type
is_simple_type(t) == t = "step"

\* The names of TYPE.get_xsd_attributes(), the attributes the type declares.
get_xsd_attributes(t) ==
    CASE t \in {"direction-type", "ornaments"} -> {"id"}
      [] t = "note" -> {"id", "print-leger"}
      [] t = "offset" -> {"sound"}
      [] OTHER -> {}

\* replace_key_underline_with_hyphen for one key, given as the list of its
\* words: the attribute name with these words; a single word is its own
\* name, and "-" stands for the other names no attribute has.
replace_key_underline_with_hyphen(key) ==
    IF key = <<"print", "leger">> THEN "print-leger"
    ELSE IF Len(key) = 1 THEN key[1] ELSE "-"

\* A Python dictionary is a function; the empty one is <<>>.
Pop(d, k) ==
    IF DOMAIN d \ {k} = {} THEN <<>>
    ELSE Table([x \in DOMAIN d \ {k} |-> d[x]])

Updated(d, k, v) ==
    Table([x \in DOMAIN d \cup {k} |-> IF x = k THEN v ELSE d[x]])

\* The element with its attributes and the values of its children.
Self ==
    [reps |-> reps, xml_elements |-> xml_elements, chosen_child |-> chosen_child,
     unordered_children |-> unordered_children, parent |-> parent,
     parent_xsd_element |-> parent_xsd_element,
     attributes |-> _attributes, value |-> _value]

\* What is assigned: None, a plain value, or an element.
Nothing == [kind |-> "None", child |-> None, value |-> NoValue]

Plain(v) == [kind |-> "plain", child |-> None, value |-> v]

AnElement(c) == [kind |-> "element", child |-> c, value |-> NoValue]

\* _set_attributes({key: value}): a simple type has no attributes; a None
\* value takes the key out of the dictionary, if it is there, and is not
\* checked; any other value is checked against the declared attributes and
\* stored.
set_attributes(st, key, value) ==
    IF is_simple_type(TYPE)
    THEN [result |-> "XSDWrongAttribute", st |-> st]
    ELSE LET new_key == replace_key_underline_with_hyphen(key)
         IN  IF value.kind = "None"
             THEN [result |-> "ok", st |-> [st EXCEPT !.attributes = Pop(@, new_key)]]
             ELSE IF new_key \notin get_xsd_attributes(TYPE)
             THEN [result |-> "XSDWrongAttribute", st |-> st]
             ELSE [result |-> "ok",
                   st |-> [st EXCEPT !.attributes = Updated(@, new_key, value.value)]]

\* A _convert_attribute_to_child that adds the child without looking for
\* one that is attached.
convert_attribute_to_child_AlwaysAdding(st, name, value) ==
    LET child_name == Joined(Replace_xml_(name))
        made == Another(st, child_name, 1)
    IN  IF child_name \notin possible_children_names(st)
        THEN [result |-> "NameError", st |-> st]
        ELSE IF value.kind = "element" /\ Tag(value.child) = child_name
        THEN add_child(st, value.child, <<>>)
        ELSE IF value.kind = "None" THEN [result |-> "ok", st |-> st]
        ELSE LET done == add_child([st EXCEPT !.value[made] = value.value], made, <<>>)
             IN  IF done.result = "ok" THEN done
                 ELSE [result |-> done.result, st |-> st]

\* A _convert_attribute_to_child that takes the last child of the class
\* for the one it has found.
convert_attribute_to_child_TheLast(st, name, value) ==
    LET child_name == Joined(Replace_xml_(name))
        found_child == Reversed(find_children(st, child_name, FALSE))
        made == Another(st, child_name, 1)
    IN  IF child_name \notin possible_children_names(st)
        THEN [result |-> "NameError", st |-> st]
        ELSE IF value.kind = "element" /\ Tag(value.child) = child_name
        THEN IF found_child # <<>>
             THEN replace_child(st, {Head(found_child)}, FALSE, value.child, 0)
             ELSE add_child(st, value.child, <<>>)
        ELSE IF value.kind = "None"
        THEN IF found_child # <<>> THEN remove(st, Head(found_child))
             ELSE [result |-> "ok", st |-> st]
        ELSE IF found_child # <<>>
        THEN [result |-> "ok", st |-> [st EXCEPT !.value[Head(found_child)] = value.value]]
        ELSE LET done == add_child([st EXCEPT !.value[made] = value.value], made, <<>>)
             IN  IF done.result = "ok" THEN done
                 ELSE [result |-> done.result, st |-> st]

\* _convert_attribute_to_child(name, value): name is the list of the words
\* of the attribute name.  The child looked for is the first of its class in
\* _unordered_children; an element of the class replaces it or is added,
\* None removes it, any other value becomes its value or the value of a new
\* child of the class.
convert_attribute_to_child(st, name, value) ==
    LET child_name == Joined(Replace_xml_(name))
        found_child == find_children(st, child_name, FALSE)
        made == Another(st, child_name, 1)
    IN  IF Head(name) # "xml" \/ Len(name) < 2
        THEN [result |-> "NameError", st |-> st]
        ELSE IF child_name \notin possible_children_names(st)
        THEN [result |-> "NameError", st |-> st]
        ELSE IF value.kind = "element" /\ Tag(value.child) = child_name
        THEN IF found_child # <<>>
             THEN replace_child(st, {Head(found_child)}, FALSE, value.child, 0)
             ELSE add_child(st, value.child, <<>>)
        ELSE IF value.kind = "None"
        THEN IF found_child # <<>> THEN remove(st, Head(found_child))
             ELSE [result |-> "ok", st |-> st]
        ELSE IF found_child # <<>>
        THEN [result |-> "ok", st |-> [st EXCEPT !.value[Head(found_child)] = value.value]]
        ELSE LET done == add_child([st EXCEPT !.value[made] = value.value], made, <<>>)
             IN  IF done.result = "ok" THEN done
                 ELSE [result |-> done.result, st |-> st]

\* XMLElement.__setattr__(key, value) for a public key that is no property:
\* xml_<name> goes to _convert_attribute_to_child, any other key to
\* _set_attributes; NameError and XSDWrongAttribute become AttributeError.
setattr(st, key, value) ==
    IF Head(key) = "xml" /\ Len(key) > 1
    THEN LET done == convert_attribute_to_child(st, key, value)
         IN  IF done.result = "NameError"
             THEN [result |-> "AttributeError", st |-> done.st] ELSE done
    ELSE LET done == set_attributes(st, key, value)
         IN  IF done.result = "XSDWrongAttribute"
             THEN [result |-> "AttributeError", st |-> done.st] ELSE done

\* A child name and an attribute name that no type declares.
Unknown == "unknown"

\* The plain values a caller assigns, and the one of them that the element
\* below is given.
PlainValues == {"1", "2"}

GivenValues == {"1"}

\* The keys a caller assigns to: xml_<name> for the names of the children
\* and for another name, and the names of attributes, declared or not.
Keys ==
    {<<"xml">> \o Words(name) : name \in Tags \cup {Unknown}}
        \cup {<<"id">>, <<"print", "leger">>, <<"sound">>, <<Unknown>>}

\* What a caller assigns to a key: None, one of the plain values, and for
\* xml_<name> also a new element of the class of that name.
Assigned(st, key, values) ==
    {Nothing} \cup {Plain(v) : v \in values}
        \cup IF Head(key) = "xml" /\ Joined(Replace_xml_(key)) \in Tags
             THEN {AnElement(Another(st, Joined(Replace_xml_(key)), 1))}
             ELSE {}

\* element.<key> = value
Setattr ==
    \E key \in Keys : \E value \in Assigned(Self, key, GivenValues) :
        LET done == setattr(Self, key, value)
        IN  /\ Len(done.st.unordered_children) <= MaxChildren
            /\ done.result \notin {"bound", "hint"}
            /\ BecomesWith(done.st, done.st.attributes, done.st.value)

\* An element of a type without a container tree: no nodes, and the elements
\* a caller may try to add to it.
Childless ==
    [Fresh(<<>>) EXCEPT
        !.parent = Table([c \in {"rehearsal"} \X (1..Copies) |-> FALSE]),
        !.parent_xsd_element = Table([c \in {"rehearsal"} \X (1..Copies) |-> None])]

\* The types whose elements are assigned to.
AssignedTypes == {"direction-type", "ornaments", "note"}

AssignmentsInit ==
    \/ Init /\ TYPE \in AssignedTypes
    \/ /\ TYPE \in NoContainer
       /\ child_container_tree = <<>>
       /\ reps = Childless.reps
       /\ xml_elements = Childless.xml_elements
       /\ chosen_child = Childless.chosen_child
       /\ unordered_children = <<>>
       /\ parent = Childless.parent
       /\ parent_xsd_element = Childless.parent_xsd_element
       /\ template = [reps |-> Childless.reps, xml_elements |-> Childless.xml_elements,
                      chosen_child |-> Childless.chosen_child]
       /\ _value = Table([c \in DOMAIN Childless.parent |-> NoValue])
       /\ _attributes = <<>>
       /\ sibling = <<>>
       /\ chord = <<>>
       /\ attribute = <<>>

AssignmentsNext == AddChild \/ Setattr

Assignments == AssignmentsInit /\ [][AssignmentsNext]_vars

(***************************************************************************)
(* musictree's Chord, as its tests use it                                  *)
(* (src/musictree/tests/test_chord.py): the midis, the parent beat and the *)
(* notes that finalize creates.  The class itself is not part of src/.     *)
(***************************************************************************)
\* Midis one chord holds (guard of add_midi in this model).
MaxMidis == 3

\* Midi values: 0 is a rest.
MidiValues == {0, 58, 60, 62, 63}

\* quarter_duration: 0 makes a grace note.
QuarterDurations == {0, 1}

\* The lists up to a length.
RECURSIVE ListsUpTo(_, _)
ListsUpTo(S, n) ==
    IF n = 0 THEN {<<>>}
    ELSE ListsUpTo(S, n - 1)
             \cup {Append(l, v) : l \in {k \in ListsUpTo(S, n - 1) : Len(k) = n - 1}, v \in S}

\* The value put before the first greater one.
RECURSIVE Inserted(_, _)
Inserted(s, v) ==
    IF s = <<>> THEN <<v>>
    ELSE IF v < Head(s) THEN <<v>> \o s
    ELSE <<Head(s)>> \o Inserted(Tail(s), v)

\* The midis in ascending order of their values.
RECURSIVE sort_midis(_)
sort_midis(midis) ==
    IF midis = <<>> THEN <<>>
    ELSE Inserted(sort_midis(Tail(midis)), Head(midis))

\* A constructor that takes a rest among other midis.
Chord_MixingRests(midis, quarter_duration) ==
    [result |-> "ok",
     chord |-> <<[midis |-> sort_midis(midis), quarter_duration |-> quarter_duration,
                  parent |-> FALSE, notes |-> <<>>]>>]

\* Chord(midis, quarter_duration): ValueError for a rest among other midis
\* and for a rest as a grace note; else the chord, without parent and notes.
Chord(midis, quarter_duration) ==
    IF Len(midis) > 1 /\ 0 \in Range(midis)
    THEN [result |-> "ValueError", chord |-> <<>>]
    ELSE IF 0 \in Range(midis) /\ quarter_duration = 0
    THEN [result |-> "ValueError", chord |-> <<>>]
    ELSE [result |-> "ok",
          chord |-> <<[midis |-> sort_midis(midis), quarter_duration |-> quarter_duration,
                       parent |-> FALSE, notes |-> <<>>]>>]

\* An add_midi that does not look at the notes.
add_midi_AlsoWithNotes(ch, midi) ==
    [result |-> "ok", chord |-> [ch EXCEPT !.midis = sort_midis(Append(@, midi))]]

\* chord.add_midi(midi)
add_midi(ch, midi) ==
    IF ch.notes # <<>>
    THEN [result |-> "ChordNotesAreAlreadyCreatedError", chord |-> ch]
    ELSE [result |-> "ok", chord |-> [ch EXCEPT !.midis = sort_midis(Append(@, midi))]]

\* A finalize that does not ask for the parent.
finalize_WithoutParent(ch) ==
    [result |-> "ok", chord |-> [ch EXCEPT !.notes = ch.midis]]

\* chord.finalize(): a note for each midi.
finalize(ch) ==
    IF ~ch.parent THEN [result |-> "ChordHasNoParentError", chord |-> ch]
    ELSE [result |-> "ok", chord |-> [ch EXCEPT !.notes = ch.midis]]

\* A deepcopy that copies a chord with notes as well.
deepcopy_AlsoWithNotes(ch) ==
    [result |-> "ok",
     copied |-> <<[midis |-> ch.midis, quarter_duration |-> ch.quarter_duration]>>]

\* copy.deepcopy(chord): a chord with the same midi values and quarter
\* duration.
deepcopy(ch) ==
    IF ch.notes # <<>> THEN [result |-> "DeepCopyException", copied |-> <<>>]
    ELSE [result |-> "ok",
          copied |-> <<[midis |-> ch.midis, quarter_duration |-> ch.quarter_duration]>>]

\* The lists of midis the tests make chords of: a rest at most once.
MidiLists ==
    {midis \in ListsUpTo(MidiValues, MaxMidis) :
        /\ midis # <<>>
        /\ Cardinality({k \in 1..Len(midis) : midis[k] = 0}) <= 1}

\* ch = Chord(midis, quarter_duration)
Construct ==
    /\ chord = <<>>
    /\ \E midis \in MidiLists, quarter_duration \in QuarterDurations :
           chord' = Chord(midis, quarter_duration).chord
    /\ UNCHANGED <<_attributes, _value, TYPE, child_container_tree, reps, xml_elements, chosen_child,
                   unordered_children, parent, parent_xsd_element, template, sibling,
                   attribute>>

\* ch.add_midi(midi) with a midi that is no rest, on a chord that is none.
AddMidi ==
    /\ chord # <<>>
    /\ 0 \notin Range(chord[1].midis)
    /\ Len(chord[1].midis) < MaxMidis
    /\ \E midi \in MidiValues \ {0} : chord' = <<add_midi(chord[1], midi).chord>>
    /\ UNCHANGED <<_attributes, _value, TYPE, child_container_tree, reps, xml_elements, chosen_child,
                   unordered_children, parent, parent_xsd_element, template, sibling,
                   attribute>>

\* ch._parent = beat
SetParent ==
    /\ chord # <<>>
    /\ chord' = <<[chord[1] EXCEPT !.parent = TRUE]>>
    /\ UNCHANGED <<_attributes, _value, TYPE, child_container_tree, reps, xml_elements, chosen_child,
                   unordered_children, parent, parent_xsd_element, template, sibling,
                   attribute>>

\* ch.finalize() of a chord without notes.
Finalize ==
    /\ chord # <<>>
    /\ chord[1].notes = <<>>
    /\ chord' = <<finalize(chord[1]).chord>>
    /\ UNCHANGED <<_attributes, _value, TYPE, child_container_tree, reps, xml_elements, chosen_child,
                   unordered_children, parent, parent_xsd_element, template, sibling,
                   attribute>>

\* copy.deepcopy(ch): the chord itself stays as it is.
DeepCopy ==
    /\ chord # <<>>
    /\ deepcopy(chord[1]).result \in {"ok", "DeepCopyException"}
    /\ UNCHANGED vars

ChordsInit == Init /\ TYPE = "note"

ChordsNext == Construct \/ AddMidi \/ SetParent \/ Finalize \/ DeepCopy

Chords == ChordsInit /\ [][ChordsNext]_vars

(***************************************************************************)
(* XSDAttribute (src/musicxml/xsd/xsdattribute/core.py).                   *)
(***************************************************************************)
\* The values XSDAttribute is given: XSDTrees, with their tag and their
\* name, type and use attributes ("" for an attribute the tree does not
\* have), and an xml.etree Element, which is no XSDTree.
XSDTrees ==
    [class : {"XSDTree"}, tag : {"attribute", "element"},
     name : {"type", "number", "id"}, type : {"xs:token", "tenths"},
     use : {"", "required", "optional"}]

Elements ==
    [class : {"Element"}, tag : {"attribute"}, name : {"type"}, type : {"xs:token"},
     use : {"required"}]

\* A field that holds None.
Unset == "None"

\* A setter that stores the value before it checks it.
set_xsd_tree_StoringFirst(a, value) ==
    IF value.class # "XSDTree" THEN [result |-> "TypeError", a |-> [a EXCEPT !.xsd_tree = value]]
    ELSE IF value.tag # "attribute"
    THEN [result |-> "ValueError", a |-> [a EXCEPT !.xsd_tree = value]]
    ELSE [result |-> "ok", a |-> [a EXCEPT !.xsd_tree = value]]

\* The setter of XSDAttribute.xsd_tree.
set_xsd_tree(a, value) ==
    IF value.class # "XSDTree" THEN [result |-> "TypeError", a |-> a]
    ELSE IF value.tag # "attribute" THEN [result |-> "ValueError", a |-> a]
    ELSE [result |-> "ok", a |-> [a EXCEPT !.xsd_tree = value]]

\* XSDAttribute(xsd_tree): no object when the setter raises.
XSDAttribute(xsd_tree) ==
    LET set == set_xsd_tree([xsd_tree |-> Unset, type |-> Unset, is_required |-> Unset],
                            xsd_tree)
    IN  IF set.result # "ok" THEN [result |-> set.result, a |-> <<>>]
        ELSE [result |-> "ok",
              a |-> <<[set.a EXCEPT !.type = Unset, !.is_required = Unset]>>]

\* Reading XSDAttribute.is_required: the value, and the object after the
\* read.
is_required(a) ==
    IF a.is_required = Unset
    THEN LET value == IF a.xsd_tree.use = "required" THEN "True" ELSE "False"
         IN  [value |-> value, a |-> [a EXCEPT !.is_required = value]]
    ELSE [value |-> a.is_required, a |-> a]

\* Reading XSDAttribute.type_: the class of the type attribute, and the
\* object after the read.
type_(a) ==
    IF a.type = Unset
    THEN [value |-> a.xsd_tree.type, a |-> [a EXCEPT !.type = a.xsd_tree.type]]
    ELSE [value |-> a.type, a |-> a]

\* attribute = XSDAttribute(value)
Create ==
    /\ attribute = <<>>
    /\ \E value \in XSDTrees \cup Elements : attribute' = XSDAttribute(value).a
    /\ UNCHANGED <<_attributes, _value, TYPE, child_container_tree, reps, xml_elements, chosen_child,
                   unordered_children, parent, parent_xsd_element, template, sibling,
                   chord>>

\* attribute.xsd_tree = value
SetXsdTree ==
    /\ attribute # <<>>
    /\ \E value \in XSDTrees \cup Elements :
           attribute' = <<set_xsd_tree(attribute[1], value).a>>
    /\ UNCHANGED <<_attributes, _value, TYPE, child_container_tree, reps, xml_elements, chosen_child,
                   unordered_children, parent, parent_xsd_element, template, sibling,
                   chord>>

\* attribute.is_required
ReadIsRequired ==
    /\ attribute # <<>>
    /\ attribute' = <<is_required(attribute[1]).a>>
    /\ UNCHANGED <<_attributes, _value, TYPE, child_container_tree, reps, xml_elements, chosen_child,
                   unordered_children, parent, parent_xsd_element, template, sibling,
                   chord>>

\* attribute.type_
ReadType ==
    /\ attribute # <<>>
    /\ attribute' = <<type_(attribute[1]).a>>
    /\ UNCHANGED <<_attributes, _value, TYPE, child_container_tree, reps, xml_elements, chosen_child,
                   unordered_children, parent, parent_xsd_element, template, sibling,
                   chord>>

AttributesInit == Init /\ TYPE = "note"

AttributesNext == Create \/ SetXsdTree \/ ReadIsRequired \/ ReadType

Attributes == AttributesInit /\ [][AttributesNext]_vars

(***************************************************************************)
(* Properties.                                                             *)
(***************************************************************************)
\* The instance is part of the tree: outside every repeatable sequence, or in
\* one of its current repetitions.
Live(st, i) ==
    Enclosing(i[1]) = 0 \/ i[2] \in Range(st.reps[Enclosing(i[1])])

\* The children attached at or below one node instance, in document order.
Holding(st, n, r) == Flatten(IterNode(st, n, r), st.xml_elements)

\* The tags declared at or below node n.
RECURSIVE TagsBelow(_)
TagsBelow(n) ==
    IF IsLeaf(n) THEN {child_container_tree[n].name}
    ELSE UNION {TagsBelow(m) : m \in Range(Kids(n))}

\* The calls add_child(child, forward) a caller can make with a new child.
Calls(st) ==
    {<<tag, forward>> : tag \in Tags, forward \in {<<>>} \cup {<<f>> : f \in 0..MaxReps}}

\* C1: after any sequence of add_child, remove and replace_child calls, no
\* Leaf holds more children than the maxOccurs of its element declaration.
C1_LeafWithinMaxOccurs ==
    \A i \in DOMAIN xml_elements :
        child_container_tree[i[1]].unb
            \/ Len(xml_elements[i]) <= child_container_tree[i[1]].max

\* A Leaf with a bounded maxOccurs is full, and add_child for its tag was
\* refused.
C1_Witness ==
    \E i \in DOMAIN xml_elements :
        /\ ~child_container_tree[i[1]].unb
        /\ Len(xml_elements[i]) = child_container_tree[i[1]].max
        /\ Len(unordered_children) > 1
        /\ add_child(Here, Another(Here, child_container_tree[i[1]].name, 1),
                     <<>>).result = "NoMatchingSlot"

\* C2: in every reachable state each Choice has chosen = None exactly when no
\* child is attached under any of its alternatives, and a chosen alternative
\* is the one that holds the attachments.
C2_ChosenIffAttached ==
    \A x \in DOMAIN chosen_child :
        Live(Here, x) =>
            /\ (chosen_child[x] = 0) = (Holding(Here, x[1], x[2]) = <<>>)
            /\ \A m \in Range(Kids(x[1])) :
                   Holding(Here, m, x[2]) # <<>> => chosen_child[x] = m

\* C3: while a child is attached under alternative A of a Choice, no
\* add_child attaches a child under another alternative B of that Choice.
C3_ChoiceExclusive ==
    \A x \in DOMAIN chosen_child : \A A, B \in Range(Kids(x[1])) :
        (Live(Here, x) /\ A # B /\ Holding(Here, A, x[2]) # <<>>) =>
            \A call \in Calls(Here) :
                LET done == add_child(Here, Another(Here, call[1], 1), call[2])
                IN  done.result = "ok" => Holding(done.st, B, x[2]) = <<>>

\* C4: a failing add_child leaves the tree, the unordered children and the
\* rejected child's parent reference as they were.
C4_FailedAddChangesNothing ==
    \A call \in Calls(Here) :
        LET done == add_child(Here, Another(Here, call[1], 1), call[2])
        IN  done.result = "NoMatchingSlot" => done.st = Here

\* add_child is refused in a state where the element has children.
C4_Witness ==
    /\ unordered_children # <<>>
    /\ \E call \in Calls(Here) :
           LET done == add_child(Here, Another(Here, call[1], 1), call[2])
           IN  done.result = "NoMatchingSlot" /\ done.st = Here

\* The states a round trip can end in: at most n more successful add_child
\* calls, then remove of the same children, last added first.
RECURSIVE RoundTrips(_, _)
RoundTrips(st, n) ==
    {st} \cup
    (IF n = 0 THEN {}
     ELSE UNION {LET child == Another(st, call[1], 1)
                     done == add_child(st, child, call[2])
                 IN  IF done.result = "ok"
                     THEN {remove(e, child).st : e \in RoundTrips(done.st, n - 1)}
                     ELSE {} : call \in Calls(st)})

\* Every Leaf is empty, every Choice has chosen = None, each repeatable
\* sequence has one repetition and the element has no children.
Blank(st) ==
    /\ st.unordered_children = <<>>
    /\ \A i \in DOMAIN st.xml_elements : st.xml_elements[i] = <<>>
    /\ \A x \in DOMAIN st.chosen_child : st.chosen_child[x] = 0
    /\ \A s \in DOMAIN st.reps : Len(st.reps[s]) = 1

\* C5: successful add_child calls on a fresh element followed by remove of
\* the same children in reverse order end in a tree equal to the fresh one.
C5_RoundTripIsFresh ==
    Here = Fresh(child_container_tree) =>
        \A e \in RoundTrips(Here, MaxChildren) : Blank(e)

\* Schema order of two Leaf instances: by repetition, then left to right.
Precedes(st, i, j) ==
    IF /\ Enclosing(i[1]) # 0
       /\ Enclosing(i[1]) = Enclosing(j[1])
       /\ i[2] # j[2]
    THEN PositionIn(st.reps[Enclosing(i[1])], i[2])
             < PositionIn(st.reps[Enclosing(j[1])], j[2])
    ELSE i[1] < j[1]

C7_RemoveKeepsOtherChildren ==
    \A child \in Range(unordered_children) :
        LET post == remove(Here, child).st
        IN  /\ \A s \in DOMAIN reps :
                   \A r \in Range(reps[s]) \ Range(post.reps[s]) :
                       Holding(post, s, r) = <<>> /\ Len(reps[s]) > 1
            /\ get_children(post, TRUE)
                   = RemoveFirst(get_children(Here, TRUE), child)

\* The states reached by removing every child, in every order.
RECURSIVE Emptied(_)
Emptied(st) ==
    IF st.unordered_children = <<>> THEN {st}
    ELSE UNION {Emptied(remove(st, child).st) :
                    child \in Range(st.unordered_children)}

\* C8: in an unbounded Sequence with one required Leaf, 3 attached children
\* make 3 repetitions, removing all children in any order leaves exactly one
\* empty repetition, and the number of repetitions is never zero.
C8_RepetitionsFollowChildren ==
    TYPE = "repeated" =>
        /\ Len(reps[Root]) >= 1
        /\ Len(unordered_children) = 3 => Len(reps[Root]) = 3
        /\ \A e \in Emptied(Here) :
               /\ Len(e.reps[Root]) = 1
               /\ Holding(e, Root, e.reps[Root][1]) = <<>>

\* Three children in three repetitions, which removing them leaves as one.
C8_Witness ==
    /\ TYPE = "repeated"
    /\ Len(unordered_children) = 3
    /\ Len(reps[Root]) = 3
    /\ \E e \in Emptied(Here) : Len(e.reps[Root]) = 1

\* C9: in every reachable state at most one repetition of a repeatable
\* sequence holds no child.
C9_AtMostOneEmptyRepetition ==
    \A s \in DOMAIN reps :
        Cardinality({k \in 1..Len(reps[s]) :
                        Holding(Here, s, reps[s][k]) = <<>>}) <= 1

\* Several repetitions hold children, and removing a child prunes one.
C9_Witness ==
    \E s \in DOMAIN reps :
        /\ Len(reps[s]) > 1
        /\ \E child \in Range(unordered_children) :
               Len(remove(Here, child).st.reps[s]) < Len(reps[s])

\* C10: when remove takes the last child attached anywhere under a Choice,
\* that Choice has chosen = None afterwards and add_child succeeds for the tag
\* of any of its alternatives.
C10_RemovingLastChildReopens ==
    \A child \in Range(unordered_children) : \A x \in DOMAIN chosen_child :
        (Live(Here, x) /\ Holding(Here, x[1], x[2]) = <<child>>) =>
            LET post == remove(Here, child).st
            IN  /\ post.chosen_child[x] = 0
                /\ \A tag \in TagsBelow(x[1]) :
                       add_child(post, Another(post, tag, 1), <<>>).result = "ok"

\* C11: when a Leaf with maxOccurs = n holds n children, a further add_child
\* for its tag either fails, and then no enclosing sequence may repeat and no
\* other Leaf takes the tag, or places the child in another Leaf, in a new
\* repetition; the saturated Leaf keeps its n children.
C11_SaturatedLeafTakesNoMore ==
    \A i \in DOMAIN xml_elements :
        (Live(Here, i) /\ Saturated(Here, i)) =>
            \A forward \in {<<>>} \cup {<<f>> : f \in 0..MaxReps} :
                LET child == Another(Here, child_container_tree[i[1]].name, 1)
                    done == add_child(Here, child, forward)
                    leaf == done.st.parent_xsd_element[child]
                IN  /\ done.st.xml_elements[i] = xml_elements[i]
                    /\ done.result \in {"ok", "NoMatchingSlot", "hint"}
                    /\ done.result = "NoMatchingSlot" =>
                           /\ Duplicable(Here, Tag(child)) = {}
                           /\ Candidates(Here, Tag(child)) = <<>>
                    /\ done.result = "ok" =>
                           /\ leaf \in DOMAIN xml_elements \ {i}
                           /\ child \in Range(done.st.xml_elements[leaf])
                           /\ Enclosing(leaf[1]) # 0
                           /\ leaf[2] \notin Range(reps[Enclosing(leaf[1])])
                           /\ leaf[2] \in Range(done.st.reps[Enclosing(leaf[1])])

\* A Leaf in a repeatable sequence holds its maxOccurs children, and
\* add_child for its tag puts the child into a new repetition.
C11_Witness ==
    \E i \in DOMAIN xml_elements :
        /\ Live(Here, i)
        /\ Saturated(Here, i)
        /\ Len(xml_elements[i]) > 0
        /\ LET child == Another(Here, child_container_tree[i[1]].name, 1)
               done == add_child(Here, child, <<>>)
           IN  /\ done.result = "ok"
               /\ Len(done.st.reps[Enclosing(i[1])]) = Len(reps[Enclosing(i[1])]) + 1

\* The calls replace_child(old, new, index) a caller can make with a new
\* object of any class: old a child or an object that is none, or a function
\* that selects the children of one name.
Replacements(st) ==
    LET news == {Another(st, tag, 1) : tag \in Tags} \cup {Stranger}
    IN  {[olds |-> {old}, callable |-> FALSE, new |-> new, index |-> index] :
             old \in Named(st), new \in news, index \in {-1, 0, 1}}
        \cup
        {[olds |-> {c \in DOMAIN st.parent : Tag(c) = name}, callable |-> TRUE,
          new |-> new, index |-> index] :
             name \in Tags, new \in news,
             index \in (-MaxChildren - 1)..MaxChildren}

\* The child a replacement names: the index-th of the olds, in document
\* order.
Replaced(st, call) ==
    At(SelectSeq(get_children(st, TRUE), LAMBDA ch : ch \in call.olds), call.index)

\* C12: after a successful replace_child(old, new), new is at the index old
\* had in its Leaf and in the unordered children, nothing else in these lists
\* has moved, and every Choice's chosen value and the repetitions are as
\* before the call.
C12_ReplaceKeepsPositionAndFrame ==
    \A call \in Replacements(Here) :
        LET done == replace_child(Here, call.olds, call.callable, call.new, call.index)
        IN  done.result = "ok" =>
                LET old == Replaced(Here, call)
                    leaf == parent_xsd_element[old]
                IN  /\ done.st.unordered_children =
                           [unordered_children EXCEPT
                               ![IndexOf(unordered_children, old)] = call.new]
                    /\ done.st.xml_elements =
                           [xml_elements EXCEPT
                               ![leaf] = [@ EXCEPT ![IndexOf(@, old)] = call.new]]
                    /\ done.st.chosen_child = chosen_child
                    /\ done.st.reps = reps

\* A child that is neither the last of its Leaf nor the last of the
\* unordered children is replaced.
C12_Witness ==
    \E call \in Replacements(Here) :
        /\ replace_child(Here, call.olds, call.callable, call.new, call.index).result = "ok"
        /\ LET old == Replaced(Here, call)
           IN  /\ IndexOf(unordered_children, old) < Len(unordered_children)
               /\ IndexOf(xml_elements[parent_xsd_element[old]], old)
                      < Len(xml_elements[parent_xsd_element[old]])

\* The children a replacement matches, in document order.
Matches(st, call) ==
    SelectSeq(get_children(st, TRUE), LAMBDA ch : ch \in call.olds)

\* C13: replace_child with an old child or a function that matches no child
\* fails with ValueError, with a new that is no XMLElement with TypeError,
\* with an index out of range with IndexError; each failure leaves the
\* container tree, the unordered children and the parent reference of new as
\* they were.
C13_FailedReplaceChangesNothing ==
    \A call \in Replacements(Here) :
        LET done == replace_child(Here, call.olds, call.callable, call.new, call.index)
            found == Matches(Here, call)
        IN  /\ found = <<>> => done.result = "ValueError"
            /\ (found # <<>> /\ call.new = Stranger) => done.result = "TypeError"
            /\ (found # <<>> /\ call.new # Stranger /\ ~InRange(found, call.index))
                   => done.result = "IndexError"
            /\ done.result # "ok" => done.st = Here
            /\ done.result = "ok" =>
                   (found # <<>> /\ call.new # Stranger /\ InRange(found, call.index))

\* The element has children, and replace_child fails in each of the three
\* ways.
C13_Witness ==
    /\ unordered_children # <<>>
    /\ \A error \in {"ValueError", "TypeError", "IndexError"} :
           \E call \in Replacements(Here) :
               LET done == replace_child(Here, call.olds, call.callable,
                                         call.new, call.index)
               IN  done.result = error /\ done.st = Here

\* A Leaf of the container tree of another element.
Elsewhere == <<0, 1>>

\* The element with an object that is not among its children: one never
\* added or removed before (no Leaf, no parent), one replaced before (it
\* still remembers its Leaf, and its parent after a replacement by function),
\* or one attached to another element.
Outsiders(st) ==
    {[child |-> Another(st, tag, 2),
      st |-> [st EXCEPT !.parent_xsd_element[Another(st, tag, 2)] = leaf,
                        !.parent[Another(st, tag, 2)] = p]] :
         tag \in Tags,
         leaf \in {None, Elsewhere} \cup DOMAIN st.xml_elements,
         p \in BOOLEAN}

\* C14: remove(child) for a child that is not attached to the element fails
\* and leaves the container tree, the children lists and the parent links of
\* the child as they were.
C14_FailedRemoveChangesNothing ==
    \A out \in Outsiders(Here) :
        LET done == remove(out.st, out.child)
        IN  done.result = "ValueError" /\ done.st = out.st

\* The element has children, and remove is refused for an object that
\* remembers a Leaf of the element without being a child.
C14_Witness ==
    /\ unordered_children # <<>>
    /\ \E out \in Outsiders(Here) :
           /\ out.st.parent_xsd_element[out.child] \in DOMAIN xml_elements
           /\ xml_elements[out.st.parent_xsd_element[out.child]] # <<>>
           /\ remove(out.st, out.child).result = "ValueError"

\* C15: in every reachable state possible_children_names is exactly the set
\* of tags for which add_child would succeed in that state; a tag whose Leaves
\* are all saturated or excluded by a committed Choice is not in the set.
C15_PossibleNamesAreAddable ==
    possible_children_names(Here) =
        {tag \in Tags : add_child(Here, Another(Here, tag, 1), <<>>).result = "ok"}

\* The node instance is in force: in the tree, and every Choice above it has
\* chosen the branch it lies in.
InForce(st, i) ==
    /\ Live(st, i)
    /\ \A m \in Range(PathToRoot(i[1])) :
           (Up(m) # 0 /\ IsChoice(Up(m)))
               => st.chosen_child[<<Up(m), InstOf(Up(m), i[2])>>] = m

\* Every Leaf and Choice with minOccurs >= 1 meets its minimum: a Choice in
\* force has chosen and a Leaf in force holds minOccurs children; until a
\* Choice with minOccurs >= 1 has chosen, one of its Leaves is missing.
MinimaMet(st) ==
    /\ \A x \in DOMAIN st.chosen_child :
           (InForce(st, x) /\ child_container_tree[x[1]].min >= 1)
               => st.chosen_child[x] # 0
    /\ \A i \in DOMAIN st.xml_elements :
           InForce(st, i) => Len(st.xml_elements[i]) >= child_container_tree[i[1]].min

Serializations(st) ==
    {[ic |-> ic, attrs |-> attrs, checks |-> checks] :
         ic \in BOOLEAN, attrs \in BOOLEAN,
         checks \in [Range(st.unordered_children) -> Verdicts]}

\* C17: to_string with intelligent_choice = True is read-only: whether it
\* succeeds or raises, every Leaf's attached list, every Choice's chosen
\* value, the repetitions and the order of get_children are as before the
\* call.
C17_IntelligentChoiceReadsOnly ==
    \A call \in Serializations(Here) :
        call.ic =>
            \A o \in to_string(Here, TRUE, call.attrs, call.checks) :
                /\ o.st.xml_elements = xml_elements
                /\ o.st.chosen_child = chosen_child
                /\ o.st.reps = reps
                /\ get_children(o.st, TRUE) = get_children(Here, TRUE)

\* The depth of the container tree: the longest path from a Leaf to the
\* root.
Height ==
    CHOOSE h \in 1..Len(child_container_tree) :
        /\ \A n \in DOMAIN child_container_tree : Len(PathToRoot(n)) <= h
        /\ \E n \in DOMAIN child_container_tree : Len(PathToRoot(n)) = h

RECURSIVE VisitNode(_, _, _, _, _), VisitKids(_, _, _, _, _, _),
          VisitReps(_, _, _, _, _), VisitSlot(_, _, _, _, _)

\* The node instances the computation of the required names looks at, each
\* with the depth at which it is reached, in the order of the computation.  A
\* path that has gone deeper than the tree is given up.
VisitNode(st, n, r, backtrack, depth) ==
    << <<n, r, depth>> >> \o
    (IF IsLeaf(n) \/ depth > Height THEN <<>>
     ELSE IF IsChoice(n)
     THEN LET chosen == st.chosen_child[<<n, r>>]
              own == IF chosen # 0 THEN VisitSlot(st, chosen, r, backtrack, depth + 1)
                     ELSE IF child_container_tree[n].min = 0 THEN <<>>
                     ELSE VisitKids(st, n, r, 1, backtrack, depth + 1)
          IN  IF ~backtrack THEN own
              ELSE own \o VisitKids(st, n, r, 1, backtrack, depth + 1)
     ELSE VisitKids(st, n, r, 1, backtrack, depth + 1))

VisitKids(st, n, r, i, backtrack, depth) ==
    IF i > Len(Kids(n)) THEN <<>>
    ELSE VisitSlot(st, Kids(n)[i], r, backtrack, depth)
             \o VisitKids(st, n, r, i + 1, backtrack, depth)

VisitReps(st, s, j, backtrack, depth) ==
    IF j > Len(st.reps[s]) THEN <<>>
    ELSE VisitNode(st, s, st.reps[s][j], backtrack, depth)
             \o VisitReps(st, s, j + 1, backtrack, depth)

VisitSlot(st, n, r, backtrack, depth) ==
    IF Repeatable(n) THEN VisitReps(st, n, 1, backtrack, depth)
    ELSE VisitNode(st, n, r, backtrack, depth)

Incomplete(st, checks) ==
    \E child \in Range(get_children(st, TRUE)) :
        checks[child] = "XMLElementChildrenRequired"

\* C20 as stated: to_string returns text only when the required names are
\* empty for the element and every descendant, and if any element of the
\* subtree still has required children it raises XMLElementChildrenRequired
\* and produces no text.
C20_Original ==
    \A call \in Serializations(Here) :
        \A o \in to_string(Here, call.ic, call.attrs, call.checks) :
            /\ o.text =>
                   /\ get_required_element_names(o.st, call.ic) = <<>>
                   /\ ~Incomplete(o.st, call.checks)
            /\ (get_required_element_names(o.st, call.ic) # <<>>
                    \/ Incomplete(o.st, call.checks))
                   => (o.result = "XMLElementChildrenRequired" /\ ~o.text)

\* C20, amended: to_string returns text only when the required names are
\* empty for the element, its required attributes are set and the checks of
\* every child pass; if the element or an element below it still has required
\* children, to_string raises and produces no text, and what it raises is
\* XMLElementChildrenRequired when the element itself requires children, or
\* when no check that comes before the incomplete child fails.
C20_TextOnlyWhenComplete ==
    \A call \in Serializations(Here) :
        \A o \in to_string(Here, call.ic, call.attrs, call.checks) :
            LET required == get_required_element_names(o.st, call.ic)
                children == get_children(o.st, TRUE)
            IN  /\ o.text = (o.result = "ok")
                /\ o.text =>
                       /\ required = <<>>
                       /\ call.attrs
                       /\ \A child \in Range(children) : call.checks[child] = "ok"
                /\ (required # <<>> \/ Incomplete(o.st, call.checks)) => ~o.text
                /\ required # <<>> => o.result = "XMLElementChildrenRequired"
                /\ (/\ required = <<>>
                    /\ call.attrs
                    /\ \E k \in 1..Len(children) :
                           /\ call.checks[children[k]] = "XMLElementChildrenRequired"
                           /\ \A j \in 1..(k - 1) : call.checks[children[j]] = "ok")
                       => o.result = "XMLElementChildrenRequired"

\* The element is complete and has several children: to_string writes text
\* when all checks pass, and raises another exception than
\* XMLElementChildrenRequired when a child with required children comes after
\* a child without a value.
C20_Witness ==
    /\ Len(get_children(Here, TRUE)) > 1
    /\ get_required_element_names(Here, FALSE) = <<>>
    /\ \E call \in Serializations(Here) :
           \E o \in to_string(Here, call.ic, call.attrs, call.checks) : o.text
    /\ \E call \in Serializations(Here) :
           \E o \in to_string(Here, call.ic, call.attrs, call.checks) :
               /\ Incomplete(o.st, call.checks)
               /\ call.attrs
               /\ o.result = "ValueError"

\* The calls add_child(child, forward) with a new child that no Leaf of the
\* tree can take, while a repeatable sequence that declares the tag can be
\* repeated once more.
Duplications(st) ==
    {call \in Calls(st) :
        /\ Candidates(st, call[1]) = <<>>
        /\ Duplicable(st, call[1]) # {}
        /\ add_child(st, Another(st, call[1], 1), call[2]).result \notin {"hint", "bound"}}

\* Child c stands before child d in the list.
Before(s, c, d) ==
    \E j, k \in 1..Len(s) : j < k /\ s[j] = c /\ s[k] = d

\* C21: when no Leaf can take the tag but a Sequence that declares it can be
\* repeated once more, add_child succeeds with a new repetition; the new child
\* comes after all children of the earlier repetitions in document order and
\* the other children keep their places (in XMLOrnaments trill-mark,
\* accidental-mark, wavy-line, wavy-line, added in this order, are listed in
\* exactly that order).
C21_DuplicationComesLast ==
    \A call \in Duplications(Here) :
        LET new == Another(Here, call[1], 1)
            done == add_child(Here, new, call[2])
            s == Min(Duplicable(Here, call[1]))
            ordered == get_children(done.st, TRUE)
        IN  /\ done.result = "ok"
            /\ Len(done.st.reps[s]) = Len(reps[s]) + 1
            /\ SubSeq(done.st.reps[s], 1, Len(reps[s])) = reps[s]
            /\ \A k \in 1..Len(reps[s]) :
                   \A d \in Range(Holding(Here, s, reps[s][k])) : Before(ordered, d, new)
            /\ SelectSeq(ordered, LAMBDA d : d # new) = get_children(Here, TRUE)
            /\ (/\ TYPE = "ornaments"
                /\ call[1] = "wavy-line"
                /\ unordered_children =
                       << <<"trill-mark", 1>>, <<"accidental-mark", 1>>, <<"wavy-line", 1>> >>
                /\ get_children(Here, TRUE) = unordered_children)
                   => ordered = << <<"trill-mark", 1>>, <<"accidental-mark", 1>>,
                                   <<"wavy-line", 1>>, <<"wavy-line", 2>> >>

\* XMLOrnaments holds trill-mark, accidental-mark and wavy-line, added in
\* this order, in two repetitions, and a second wavy-line is added in a third.
C21_Witness ==
    /\ TYPE = "ornaments"
    /\ unordered_children =
           << <<"trill-mark", 1>>, <<"accidental-mark", 1>>, <<"wavy-line", 1>> >>
    /\ get_children(Here, TRUE) = unordered_children
    /\ Len(reps[Root]) = 2
    /\ <<"wavy-line", <<>>>> \in Duplications(Here)
    /\ Len(add_child(Here, <<"wavy-line", 2>>, <<>>).st.reps[Root]) = 3

\* C22: when several Leaves can take the tag, add_child with forward = i
\* attaches the child to the i-th (0-based) of them in the order of the tree,
\* and add_child without forward attaches it to the first.
C22_ForwardSelectsCandidate ==
    \A tag \in Tags :
        LET cands == Candidates(Here, tag)
            new == Another(Here, tag, 1)
        IN  Len(cands) > 1 =>
                /\ \A i \in 0..(Len(cands) - 1) :
                       LET done == add_child(Here, new, <<i>>)
                       IN  /\ done.result = "ok"
                           /\ done.st.parent_xsd_element[new] = cands[i + 1]
                           /\ done.st.xml_elements[cands[i + 1]]
                                  = Append(xml_elements[cands[i + 1]], new)
                           /\ \A j \in DOMAIN xml_elements :
                                  j # cands[i + 1]
                                      => done.st.xml_elements[j] = xml_elements[j]
                /\ add_child(Here, new, <<>>) = add_child(Here, new, <<0>>)

\* The element holds children, two Leaves can take a tag, and add_child with
\* forward = 1 attaches the child to the second of them, not the first.
C22_Witness ==
    /\ unordered_children # <<>>
    /\ \E tag \in Tags :
           LET cands == Candidates(Here, tag)
               new == Another(Here, tag, 1)
           IN  /\ Len(cands) > 1
               /\ cands[1] # cands[2]
               /\ add_child(Here, new, <<1>>).st.parent_xsd_element[new] = cands[2]
               /\ add_child(Here, new, <<>>).st.parent_xsd_element[new] = cands[1]

\* The list without the child.
Without(s, child) == SelectSeq(s, LAMBDA ch : ch # child)

\* The list with new where old was.
RECURSIVE InPlaceOf(_, _, _)
InPlaceOf(s, old, new) ==
    IF s = <<>> THEN <<>>
    ELSE <<IF Head(s) = old THEN new ELSE Head(s)>> \o InPlaceOf(Tail(s), old, new)

\* C23: get_children(ordered=False), find_children and find_child list the
\* attached children in the order in which they were added, whatever the
\* order of the schema: a successful add_child puts the child after all
\* others, remove takes the child out and moves no other, replace_child puts
\* the new child where the old one was, and a failing call and to_string
\* leave the list as it is.
C23_UnorderedKeepsAdditionOrder ==
    LET listed == get_children(Here, FALSE)
    IN  /\ \A call \in Calls(Here) :
               LET new == Another(Here, call[1], 1)
                   done == add_child(Here, new, call[2])
               IN  /\ get_children(done.st, FALSE) =
                          IF done.result = "ok" THEN Append(listed, new) ELSE listed
                   /\ \A name \in Tags :
                          /\ find_children(done.st, name, FALSE) =
                                 IF done.result = "ok" /\ name = call[1]
                                 THEN Append(find_children(Here, name, FALSE), new)
                                 ELSE find_children(Here, name, FALSE)
                          /\ find_child(done.st, name, FALSE) =
                                 IF find_children(Here, name, FALSE) # <<>>
                                 THEN find_child(Here, name, FALSE)
                                 ELSE IF done.result = "ok" /\ name = call[1]
                                 THEN new ELSE None
        /\ \A child \in Named(Here) :
               LET done == remove(Here, child)
               IN  /\ get_children(done.st, FALSE) = Without(listed, child)
                   /\ \A name \in Tags :
                          find_children(done.st, name, FALSE) =
                              Without(find_children(Here, name, FALSE), child)
        /\ \A call \in Replacements(Here) :
               LET done == replace_child(Here, call.olds, call.callable,
                                         call.new, call.index)
               IN  get_children(done.st, FALSE) =
                       IF done.result = "ok"
                       THEN InPlaceOf(listed, Replaced(Here, call), call.new)
                       ELSE listed
        /\ \A call \in Serializations(Here) :
               \A o \in to_string(Here, call.ic, call.attrs, call.checks) :
                   get_children(o.st, FALSE) = listed

\* The children were not added in the order of the schema, and the unordered
\* list and find_children name them in the order of the calls: a child added
\* now comes last in the one and first in the other.
C23_Witness ==
    /\ Len(unordered_children) > 1
    /\ get_children(Here, TRUE) # get_children(Here, FALSE)
    /\ \E tag \in Tags :
           LET new == Another(Here, tag, 1)
               done == add_child(Here, new, <<>>)
           IN  /\ done.result = "ok"
               /\ get_children(done.st, FALSE) = Append(unordered_children, new)
               /\ Head(get_children(done.st, TRUE)) = new
               /\ find_child(done.st, tag, FALSE) = new

\* Names a caller reads: the children the element's type declares and one it
\* does not declare.
Undeclared == "undeclared"

\* The items of the attributes of the element: font_family, and type.
AttributeItems == {<<"font", "family">>, <<"type">>}

\* The ways element.<item> can be read: the item, the attributes that are
\* set and those the type declares.
Readings(st) ==
    {[item |-> item, attributes |-> attributes, allowed |-> allowed] :
         item \in {<<"xml">> \o Words(name) : name \in Tags \cup {Undeclared}}
                      \cup {Words(name) : name \in Tags} \cup AttributeItems,
         attributes \in SUBSET AttributeItems,
         allowed \in SUBSET AttributeItems}

\* What reading xml_<name> comes to in this state, with no attribute set.
xml_(st, name) == getattr(st, <<"xml">> \o Words(name), {}, {})

\* C24: reading element.xml_<name> returns an attached child with the tag
\* <name> if there is one (the first in the order of the calls), None if
\* <name> is a possible child name and no such child is attached, also after
\* the child was removed, and raises AttributeError if <name> is neither an
\* attribute nor a possible child name.
C24_XmlNameReadsTheChild ==
    /\ \A call \in Readings(Here) : \A name \in Tags \cup {Undeclared} :
           call.item = <<"xml">> \o Words(name) =>
               LET got == getattr(Here, call.item, call.attributes, call.allowed)
               IN  /\ got.kind \in {"child", "None", "AttributeError"}
                   /\ (\E c \in Range(unordered_children) : Tag(c) = name)
                          => /\ got.kind = "child"
                             /\ got.value = find_child(Here, name, FALSE)
                             /\ Tag(got.value) = name
                             /\ parent[got.value]
                   /\ ((\A c \in Range(unordered_children) : Tag(c) # name)
                          /\ name \in possible_children_names(Here))
                          => got.kind = "None"
                   /\ name \notin possible_children_names(Here)
                          => got.kind = "AttributeError"
    /\ \A child \in Range(unordered_children) :
           LET after == remove(Here, child).st
           IN  /\ xml_(Here, Tag(child)).kind = "child"
               /\ xml_(after, Tag(child)).kind = "child"
                      => xml_(after, Tag(child)).value # child
               /\ Count(Here, Tag(child)) = 1 => xml_(after, Tag(child)).kind = "None"

\* The element holds one child of a class and a child of another: xml_<name>
\* reads the child, reads None once it is removed, and raises AttributeError
\* for a name the type does not declare.
C24_Witness ==
    /\ Len(unordered_children) > 1
    /\ \E child \in Range(unordered_children) :
           /\ Count(Here, Tag(child)) = 1
           /\ Head(unordered_children) # child
           /\ xml_(Here, Tag(child)).kind = "child"
           /\ xml_(Here, Tag(child)).value = child
           /\ xml_(remove(Here, child).st, Tag(child)).kind = "None"
    /\ xml_(Here, Undeclared).kind = "AttributeError"
    /\ \E name \in Tags : xml_(Here, name).kind = "None"

\* The midis a test adds to a chord: no rests.
Pitches == MidiValues \ {0}

Occurrences(s, v) == Cardinality({k \in 1..Len(s) : s[k] = v})

Ascending(s) == \A j, k \in 1..Len(s) : j < k => s[j] <= s[k]

C28_OnlyAttributeTreesAndRequired ==
    /\ \A value \in XSDTrees \cup Elements :
           LET made == XSDAttribute(value)
           IN  /\ value.class # "XSDTree" => (made.result = "TypeError" /\ made.a = <<>>)
               /\ (value.class = "XSDTree" /\ value.tag # "attribute")
                      => (made.result = "ValueError" /\ made.a = <<>>)
               /\ (value.class = "XSDTree" /\ value.tag = "attribute")
                      => (made.result = "ok" /\ made.a[1].xsd_tree = value)
               /\ attribute # <<>> =>
                      LET set == set_xsd_tree(attribute[1], value)
                      IN  set.result # "ok" => set.a = attribute[1]
    /\ attribute # <<>> =>
           LET read == is_required(attribute[1])
           IN  /\ attribute[1].xsd_tree.tag = "attribute"
               /\ (read.value = "True") = (attribute[1].xsd_tree.use = "required")
               /\ is_required(read.a).value = read.value

\* The Leaf is a member of a Sequence, and a later member of the Sequence
\* holds a child in the Leaf's repetition.
LaterMemberHolds(st, i) ==
    /\ Up(i[1]) # 0
    /\ child_container_tree[Up(i[1])].kind = "sequence"
    /\ \E k \in 1..Len(Kids(Up(i[1]))) :
           /\ k > PositionIn(Kids(Up(i[1])), i[1])
           /\ Holding(st, Kids(Up(i[1]))[k], InstOf(Kids(Up(i[1]))[k], i[2])) # <<>>

\* C29: once a later member of a Sequence holds a child, an earlier member
\* Leaf with minOccurs = 0 that is still empty is closed for this repetition:
\* add_child for its tag does not attach the child there; it fails or the
\* child goes elsewhere.
C29_EarlierOptionalLeafIsClosed ==
    \A i \in DOMAIN xml_elements :
        (/\ Live(Here, i)
         /\ child_container_tree[i[1]].min = 0
         /\ xml_elements[i] = <<>>
         /\ LaterMemberHolds(Here, i))
            => \A forward \in {<<>>} \cup {<<f>> : f \in 0..MaxReps} :
                   LET new == Another(Here, child_container_tree[i[1]].name, 1)
                       done == add_child(Here, new, forward)
                   IN  /\ done.st.xml_elements[i] = <<>>
                       /\ done.result = "ok" => done.st.parent_xsd_element[new] # i
                       /\ done.result # "ok" => done.st = Here

\* The group full-note holds a pitch and no chord, and add_child of a chord
\* is refused.
C29_Witness ==
    /\ TYPE = "full-note"
    /\ \E i \in DOMAIN xml_elements :
           /\ child_container_tree[i[1]].name = "chord"
           /\ xml_elements[i] = <<>>
           /\ LaterMemberHolds(Here, i)
    /\ add_child(Here, Another(Here, "chord", 1), <<>>).result = "NoMatchingSlot"

\* C30: after any sequence of add_child, remove and replace_child calls,
\* successful or failing, get_children(ordered=True) and
\* get_children(ordered=False) hold the same children, each as often in the
\* one as in the other.
C30_ListingsHoldTheSameChildren ==
    \A c \in DOMAIN parent :
        Occurrences(get_children(Here, TRUE), c) = Occurrences(get_children(Here, FALSE), c)

\* C31: in every reachable state a child's parent reference points to the
\* element if and only if the child is among the element's children; after
\* remove the removed child has no parent and no owning Leaf, and after
\* replace_child the replaced child has no parent, whether old was passed as
\* the child itself or as a function.
C31_ParentLinksMatchMembership ==
    /\ \A c \in DOMAIN parent : parent[c] <=> c \in Range(unordered_children)
    /\ \A child \in Range(unordered_children) :
           LET done == remove(Here, child)
           IN  /\ done.result = "ok"
               /\ ~done.st.parent[child]
               /\ done.st.parent_xsd_element[child] = None
               /\ \A c \in DOMAIN parent :
                      done.st.parent[c] <=> c \in Range(done.st.unordered_children)
    /\ \A call \in Replacements(Here) :
           LET done == replace_child(Here, call.olds, call.callable, call.new, call.index)
           IN  done.result = "ok" =>
                   /\ ~done.st.parent[Replaced(Here, call)]
                   /\ \A c \in DOMAIN parent :
                          done.st.parent[c] <=> c \in Range(done.st.unordered_children)

\* Every child held in a Leaf has the name the Leaf's element declares.
NamesMatch(st) ==
    \A i \in DOMAIN st.xml_elements :
        \A c \in Range(st.xml_elements[i]) : Tag(c) = child_container_tree[i[1]].name

\* C32: every child held in a Leaf has a tag equal to the Leaf's element
\* name, in every state reached by add_child, remove and replace_child, also
\* after replace_child(old, new) with new an element of another type than old.
C32_LeafHoldsItsOwnTag ==
    /\ NamesMatch(Here)
    /\ \A call \in Replacements(Here) :
           LET done == replace_child(Here, call.olds, call.callable, call.new, call.index)
           IN  done.result = "ok" => NamesMatch(done.st)

\* How often the Leaves S hold the object, whether they are in a repetition
\* of the tree or not.
RECURSIVE HeldTimes(_, _, _)
HeldTimes(st, S, c) ==
    IF S = {} THEN 0
    ELSE LET i == CHOOSE j \in S : TRUE
         IN  Occurrences(st.xml_elements[i], c) + HeldTimes(st, S \ {i}, c)

Held_In_Leaves(st, c) == HeldTimes(st, DOMAIN st.xml_elements, c)

\* C33: replace_child(old, new, index) with old a function replaces exactly
\* one child, the index-th in document order of the children the function is
\* true of: afterwards new is attached exactly once, the replaced child is
\* attached nowhere in the element, and every other child, the other matches
\* included, is where it was.
C33_FunctionReplacesTheIndexth ==
    \A call \in Replacements(Here) :
        (call.callable /\ call.new # Stranger) =>
            LET done == replace_child(Here, call.olds, TRUE, call.new, call.index)
                found == SelectSeq(get_children(Here, TRUE),
                                   LAMBDA ch : Tag(ch) \in {Tag(o) : o \in call.olds})
                nth == IF call.index >= 0 THEN call.index + 1
                       ELSE Len(found) + call.index + 1
                others == Range(unordered_children) \ {found[nth]}
            IN  /\ done.result = "ok" <=> nth \in 1..Len(found)
                /\ done.result = "ok" =>
                       /\ Occurrences(done.st.unordered_children, call.new) = 1
                       /\ Held_In_Leaves(done.st, call.new) = 1
                       /\ done.st.parent[call.new]
                       /\ Occurrences(get_children(done.st, TRUE), call.new) = 1
                       /\ Occurrences(done.st.unordered_children, found[nth]) = 0
                       /\ Held_In_Leaves(done.st, found[nth]) = 0
                       /\ get_children(done.st, TRUE)
                              = InPlaceOf(get_children(Here, TRUE), found[nth], call.new)
                       /\ \A c \in others :
                              /\ IndexOf(done.st.unordered_children, c)
                                     = IndexOf(unordered_children, c)
                              /\ done.st.parent_xsd_element[c] = parent_xsd_element[c]
                              /\ IndexOf(done.st.xml_elements[parent_xsd_element[c]], c)
                                     = IndexOf(xml_elements[parent_xsd_element[c]], c)
                              /\ done.st.parent[c] = parent[c]
                       /\ Len(done.st.unordered_children) = Len(unordered_children)

\* Two children of one name are attached, and a function that is true of
\* both replaces the second with index 1 and the first with index 0.
C33_Witness ==
    \E call \in Replacements(Here) :
        /\ call.callable /\ call.new # Stranger /\ call.index = 1
        /\ replace_child(Here, call.olds, TRUE, call.new, 1).result = "ok"
        /\ replace_child(Here, call.olds, TRUE, call.new, 0).result = "ok"
        /\ Replaced(Here, call) \in Range(unordered_children)
        /\ get_children(replace_child(Here, call.olds, TRUE, call.new, 1).st, TRUE)
               # get_children(replace_child(Here, call.olds, TRUE, call.new, 0).st, TRUE)

\* C34: an element whose type has no container tree (a simple type, or a
\* complex type without an entry in containers) has none after construction;
\* every add_child on it raises XMLElementCannotHaveChildrenError, its two
\* listings of children stay empty and the parent of the refused child is not
\* set.
C34_NoTreeNoChildren ==
    TYPE \in NoContainer =>
        /\ NoTree
        /\ get_children(Here, TRUE) = <<>>
        /\ get_children(Here, FALSE) = <<>>
        /\ \A c \in DOMAIN parent : \A forward \in {<<>>, <<0>>, <<1>>} :
               LET done == add_child(Here, c, forward)
               IN  /\ done.result = "XMLElementCannotHaveChildrenError"
                   /\ get_children(done.st, TRUE) = <<>>
                   /\ get_children(done.st, FALSE) = <<>>
                   /\ ~done.st.parent[c]
                   /\ done.st.parent_xsd_element[c] = None

\* An XMLOffset with its attribute sound set refuses a child.
C34_Witness ==
    /\ TYPE = "offset"
    /\ "sound" \in DOMAIN _attributes
    /\ add_child(Here, <<"rehearsal", 1>>, <<>>).result = "XMLElementCannotHaveChildrenError"

\* The assignments element.xml_<name> = v, v not None, to the name of a
\* possible child of which at most one is attached.
ChildAssignments(st) ==
    UNION {{[key |-> key, value |-> value] :
                value \in Assigned(st, key, PlainValues) \ {Nothing}} :
           key \in {<<"xml">> \o Words(name) : name \in possible_children_names(st)}}

\* The name of the child an assignment is about.
NameOf(call) == Joined(Replace_xml_(call.key))

\* The children other than found are where they were, with their values.
OthersKept(before, after, found) ==
    \A c \in Range(before.unordered_children) \ found :
        /\ c \in Range(after.unordered_children)
        /\ after.parent_xsd_element[c] = before.parent_xsd_element[c]
        /\ IndexOf(after.xml_elements[before.parent_xsd_element[c]], c)
               = IndexOf(before.xml_elements[before.parent_xsd_element[c]], c)
        /\ after.parent[c] = before.parent[c]
        /\ after.value[c] = before.value[c]

\* What the assignment does to the structure when it goes through: with no
\* child of the name one is added, an attached one is replaced in place by
\* an element and only given the value otherwise.
Idempotent(before, after, call) ==
    LET found == find_children(before, NameOf(call), FALSE)
        new == IF call.value.kind = "element" THEN call.value.child
               ELSE Another(before, NameOf(call), 1)
    IN  /\ Count(after, NameOf(call)) = 1
        /\ found = <<>> =>
               /\ after.unordered_children = Append(before.unordered_children, new)
               /\ Without(get_children(after, TRUE), new) = get_children(before, TRUE)
               /\ Occurrences(get_children(after, TRUE), new) = 1
               /\ after.parent[new]
               /\ after.value[new] = call.value.value
               /\ OthersKept(before, after, {})
        /\ (found # <<>> /\ call.value.kind = "element") =>
               /\ after.unordered_children
                      = InPlaceOf(before.unordered_children, found[1], new)
               /\ get_children(after, TRUE)
                      = InPlaceOf(get_children(before, TRUE), found[1], new)
               /\ after.parent_xsd_element[new] = before.parent_xsd_element[found[1]]
               /\ after.parent[new] /\ ~after.parent[found[1]]
               /\ OthersKept(before, after, {found[1]})
        /\ (found # <<>> /\ call.value.kind = "plain") =>
               /\ after = [before EXCEPT !.value[found[1]] = call.value.value]
        /\ after.attributes = before.attributes

Fields(st) ==
    [reps |-> st.reps, xml_elements |-> st.xml_elements,
     chosen_child |-> st.chosen_child,
     unordered_children |-> st.unordered_children, parent |-> st.parent,
     parent_xsd_element |-> st.parent_xsd_element]

\* C36: assigning element.xml_<name> = None removes the first-added attached
\* child of that name through remove, with its choice reset and duplication
\* pruning, and changes nothing else; with no child of that name attached it
\* leaves the container tree and both listings of children as they are.
C36_NoneRemovesTheFirst ==
    \A name \in possible_children_names(Self) :
        LET done == setattr(Self, <<"xml">> \o Words(name), Nothing)
            named == {k \in 1..Len(unordered_children) : Tag(unordered_children[k]) = name}
        IN  /\ done.result = "ok"
            /\ done.st.attributes = _attributes
            /\ named = {} =>
                   /\ done.st = Self
                   /\ get_children(done.st, TRUE) = get_children(Here, TRUE)
                   /\ get_children(done.st, FALSE) = unordered_children
            /\ named # {} =>
                   LET first == unordered_children[Min(named)]
                   IN  /\ Fields(done.st) = remove(Here, first).st
                       /\ done.st.unordered_children = Without(unordered_children, first)
                       /\ ~done.st.parent[first]
                       /\ done.st.parent_xsd_element[first] = None
                       /\ Held_In_Leaves(done.st, first) = 0
                       /\ \A c \in Range(unordered_children) \ {first} :
                              /\ done.st.parent[c]
                              /\ done.st.parent_xsd_element[c] = parent_xsd_element[c]
                              /\ Held_In_Leaves(done.st, c) = 1
                       /\ \A c \in DOMAIN _value : c # first => done.st.value[c] = _value[c]

\* Two children of one name and a child of another are attached, no child of
\* a further possible name is, and assigning None to the first name removes
\* the first of the two.
C36_Witness ==
    /\ \E name \in possible_children_names(Self) :
           /\ Count(Self, name) = 2
           /\ Len(unordered_children) = 3
           /\ Tag(unordered_children[1]) # name
           /\ LET done == setattr(Self, <<"xml">> \o Words(name), Nothing)
              IN  /\ done.result = "ok"
                  /\ done.st.unordered_children =
                         <<unordered_children[1], unordered_children[3]>>
    /\ \E name \in possible_children_names(Self) :
           /\ Count(Self, name) = 0
           /\ setattr(Self, <<"xml">> \o Words(name), Nothing).st = Self

\* The key names no possible child, for xml_<name>, or no attribute the type
\* declares.
NotDeclared(st, key) ==
    IF Head(key) = "xml" /\ Len(key) > 1
    THEN Joined(Replace_xml_(key)) \notin possible_children_names(st)
    ELSE is_simple_type(TYPE)
             \/ replace_key_underline_with_hyphen(key) \notin get_xsd_attributes(TYPE)

\* C37: assigning element.xml_<name> with a name that is not among the
\* possible child names, or assigning a public attribute the type does not
\* declare, raises AttributeError and leaves the children, the container tree
\* and the attribute dictionary as they were.
C37_UndeclaredNameRaises ==
    \A key \in Keys : \A value \in Assigned(Self, key, PlainValues) :
        NotDeclared(Self, key) =>
            LET done == setattr(Self, key, value)
            IN  done.result = "AttributeError" /\ done.st = Self

====
